---------------------------- MODULE Spec2Model ----------------------------
(***************************************************************************)
(* Model of the composite technical-analysis scorer get_ta_summary         *)
(* (src/tools/analysis/ta_summary.py).                                     *)
(*                                                                         *)
(* Numbers.  The program computes with Python floats.  Here every price    *)
(* and every indicator value is a fixed-point number: the integer v stands *)
(* for the real v / SCALE, and every division rounds to the nearest        *)
(* multiple of 1 / SCALE.  Volumes are whole units.  Percentages are kept  *)
(* as exact fractions [num, den].  An absent value (Python None) is the    *)
(* empty tuple; a present value v is the one-element tuple <<v>>.          *)
(***************************************************************************)
EXTENDS Integers, Sequences, FiniteSets, TLC

(***************************************************************************)
(* Fixed-point arithmetic                                                  *)
(***************************************************************************)
SCALE == 100

None == << >>

Some(v) == << v >>

Val(x) == x[1]

IsNone(x) == x = None

Abs(a) == IF a < 0 THEN -a ELSE a

Max2(a, b) == IF a >= b THEN a ELSE b

Min2(a, b) == IF a <= b THEN a ELSE b

\* a / b rounded to the nearest integer (b > 0)
Div(a, b) == (2 * a + b) \div (2 * b)

\* (a / b) as a fixed-point number, for fixed-point (or whole) a and b of one unit
Ratio(a, b) == Div(a * SCALE, b)

RECURSIVE IsqrtLoop(_, _, _)
IsqrtLoop(x, lo, hi) ==
    IF lo >= hi THEN lo
    ELSE LET mid == (lo + hi + 1) \div 2
         IN  IF mid * mid <= x THEN IsqrtLoop(x, mid, hi)
                               ELSE IsqrtLoop(x, lo, mid - 1)

\* floor of the square root of x (0 <= x < 2^31)
Isqrt(x) == IsqrtLoop(x, 0, 46340)

\* v ** 0.5 for a fixed-point v >= 0
Sqrt(v) == Isqrt(v * SCALE)

(***************************************************************************)
(* Python list helpers                                                     *)
(***************************************************************************)
\* The loops of the program are folds over index ranges.  A range is split
\* in halves so that the evaluation nests only logarithmically deep; where
\* the second half needs the result of the first (a running average), the
\* test  left = left  makes the first half be evaluated before the second.
RECURSIVE SumRange(_, _, _)
SumRange(data, lo, hi) ==
    IF lo > hi THEN 0
    ELSE IF lo = hi THEN data[lo]
    ELSE LET mid == (lo + hi) \div 2
         IN  SumRange(data, lo, mid) + SumRange(data, mid + 1, hi)

\* sum(data)
Sum(data) == SumRange(data, 1, Len(data))

RECURSIVE MaxRange(_, _, _)
MaxRange(data, lo, hi) ==
    IF lo = hi THEN data[lo]
    ELSE LET mid == (lo + hi) \div 2
         IN  Max2(MaxRange(data, lo, mid), MaxRange(data, mid + 1, hi))

RECURSIVE MinRange(_, _, _)
MinRange(data, lo, hi) ==
    IF lo = hi THEN data[lo]
    ELSE LET mid == (lo + hi) \div 2
         IN  Min2(MinRange(data, lo, mid), MinRange(data, mid + 1, hi))

\* data[-n:] for 1 <= n <= len(data)
LastN(data, n) == SubSeq(data, Len(data) - n + 1, Len(data))

\* max(data[-n:]) and min(data[-n:])
MaxLast(data, n) == MaxRange(data, Len(data) - n + 1, Len(data))

MinLast(data, n) == MinRange(data, Len(data) - n + 1, Len(data))

(***************************************************************************)
(* Indicator helpers of get_ta_summary                                     *)
(***************************************************************************)
sma(data, period) ==
    IF Len(data) < period \/ period <= 0 THEN None
    ELSE Some(Div(Sum(LastN(data, period)), period))

\* one step of  ema_val = price * k + ema_val * (1 - k),  k = 2 / (period + 1)
EmaStep(price, ema_val, period) ==
    Div(2 * price + (period - 1) * ema_val, period + 1)

\* for price in data[lo .. hi]: ema_val = EmaStep(price, ema_val)
RECURSIVE EmaLoop(_, _, _, _, _)
EmaLoop(data, period, ema_val, lo, hi) ==
    IF lo > hi THEN ema_val
    ELSE IF lo = hi THEN EmaStep(data[lo], ema_val, period)
    ELSE LET mid  == (lo + hi) \div 2
             left == EmaLoop(data, period, ema_val, lo, mid)
         IN  IF left = left THEN EmaLoop(data, period, left, mid + 1, hi)
                            ELSE left

ema(data, period) ==
    IF Len(data) < period \/ period <= 0 THEN None
    ELSE Some(EmaLoop(data, period, data[1], 2, Len(data)))

\* sum(w * x for w, x in zip(1 .. n, window))
WeightedSum(window, n) ==
    SumRange([i \in 1 .. n |-> i * window[i]], 1, n)

wma(data, period) ==
    IF Len(data) < period \/ period <= 0 THEN None
    ELSE LET window == LastN(data, period)
         IN  Some(Div(WeightedSum(window, period), (period * (period + 1)) \div 2))

\* series = data[:-1] + [2 * wma_half - wma_full], a list of its own
hma_series(data, period) ==
    LET half     == Max2(1, period \div 2)
        wma_half == wma(data, half)
        wma_full == wma(data, period)
    IN  SubSeq(data, 1, Len(data) - 1)
            \o << 2 * Val(wma_half) - Val(wma_full) >>

hma(data, period) ==
    IF period <= 0 \/ Len(data) < period THEN None
    ELSE LET half     == Max2(1, period \div 2)
             sqrtp    == Max2(1, Isqrt(period))
             wma_half == wma(data, half)
             wma_full == wma(data, period)
         IN  IF IsNone(wma_half) \/ IsNone(wma_full) THEN None
             ELSE wma(hma_series(data, period), sqrtp)

\* a variant of hma that writes the last element of series into data itself
hma_data_in_place(data, period) ==
    IF IsNone(hma(data, period)) THEN data ELSE hma_series(data, period)

\* the list the caller passed to hma, after the call: hma only reads it
hma_data(data, period) == data

\* sum(p * v for p, v in zip(a[lo .. hi], b[lo .. hi]))
DotRange(a, b, lo, hi) ==
    SumRange([i \in 1 .. hi |-> a[i] * b[i]], lo, hi)

\* a variant of vwma that gives 0 for a window without volume
vwma_zero_without_volume(price, vol, period) ==
    IF Len(price) < period \/ Len(vol) < period \/ period <= 0 THEN None
    ELSE LET pv == DotRange(price, vol, Len(price) - period + 1, Len(price))
             vv == Sum(LastN(vol, period))
         IN  IF vv = 0 THEN Some(0) ELSE Some(Div(pv, vv))

vwma(price, vol, period) ==
    IF Len(price) < period \/ Len(vol) < period \/ period <= 0 THEN None
    ELSE LET pv == DotRange(price, vol, Len(price) - period + 1, Len(price))
             vv == Sum(LastN(vol, period))
         IN  IF vv = 0 THEN None ELSE Some(Div(pv, vv))

\* sum((x - m) ** 2 for x in window)
SqDevSum(window, m, n) ==
    SumRange([i \in 1 .. n |-> (window[i] - m) * (window[i] - m)], 1, n)

stddev(data, period) ==
    IF Len(data) < period \/ period <= 1 THEN None
    ELSE LET window == LastN(data, period)
             m      == Div(Sum(window), period)
             var    == Div(SqDevSum(window, m, period), period * SCALE)
         IN  Some(Sqrt(var))

\* gains[i] and losses[i] of the change from data[i] to data[i + 1]
Gains(data) == [i \in 1 .. Len(data) - 1 |-> Max2(data[i + 1] - data[i], 0)]

Losses(data) == [i \in 1 .. Len(data) - 1 |-> Abs(Min2(data[i + 1] - data[i], 0))]

\* 100 - 100 / (1 + avg_gain / avg_loss), and 100 when avg_loss is 0
\* a variant that answers 50 when there is no loss, as stoch_k does on a
\* zero range
RsiOfNoLossIsMid(avg_gain, avg_loss) ==
    IF avg_loss = 0 THEN 50 * SCALE
    ELSE 100 * SCALE - Div(100 * SCALE * avg_loss, avg_loss + avg_gain)

RsiOf(avg_gain, avg_loss) ==
    IF avg_loss = 0 THEN 100 * SCALE
    ELSE LET rs == Ratio(avg_gain, avg_loss)
         IN  100 * SCALE - Ratio(100 * SCALE, SCALE + rs)

rsi_series(data, period) ==
    IF Len(data) < period + 1 THEN None
    ELSE LET gains    == Gains(data)
             losses   == Losses(data)
             avg_gain == Div(Sum(LastN(gains, period)), period)
             avg_loss == Div(Sum(LastN(losses, period)), period)
         IN  Some(RsiOf(avg_gain, avg_loss))

stoch_k(highs_, lows_, closes_, k_len, smooth_k) ==
    IF Len(closes_) < k_len THEN None
    ELSE LET hh == MaxLast(highs_, k_len)
             ll == MinLast(lows_, k_len)
         IN  IF hh = ll THEN Some(50 * SCALE)
             ELSE Some(Ratio((closes_[Len(closes_)] - ll) * 100, hh - ll))

cci(src_, period) ==
    IF Len(src_) < period THEN None
    ELSE LET ma == sma(src_, period)
             sd == stddev(src_, period)
         IN  IF IsNone(ma) \/ IsNone(sd) THEN None
             ELSE IF Val(sd) = 0 THEN None
             ELSE Some(Div((src_[Len(src_)] - Val(ma)) * 1000 * SCALE, 15 * Val(sd)))

true_range(h, l, c) ==
    [i \in 1 .. Len(c) - 1 |->
        Max2(h[i + 1] - l[i + 1],
             Max2(Abs(h[i + 1] - c[i]), Abs(l[i + 1] - c[i])))]

\* one step of  val = alpha * x + (1 - alpha) * val,  alpha = 1 / length
RmaStep(x, val, length) == Div(x + (length - 1) * val, length)

\* for x in series[lo .. hi]: val = RmaStep(x, val)
RECURSIVE RmaLoop(_, _, _, _, _)
RmaLoop(series, length, val, lo, hi) ==
    IF lo > hi THEN val
    ELSE IF lo = hi THEN RmaStep(series[lo], val, length)
    ELSE LET mid  == (lo + hi) \div 2
             left == RmaLoop(series, length, val, lo, mid)
         IN  IF left = left THEN RmaLoop(series, length, left, mid + 1, hi)
                            ELSE left

rma(series, length) ==
    IF Len(series) < length THEN None
    ELSE Some(RmaLoop(series, length, series[1], 2, Len(series)))

DmPlus(highs_, lows_) ==
    [i \in 1 .. Len(highs_) - 1 |->
        LET up   == highs_[i + 1] - highs_[i]
            down == lows_[i] - lows_[i + 1]
        IN  IF up > down /\ up > 0 THEN up ELSE 0]

DmMinus(highs_, lows_) ==
    [i \in 1 .. Len(highs_) - 1 |->
        LET up   == highs_[i + 1] - highs_[i]
            down == lows_[i] - lows_[i + 1]
        IN  IF down > up /\ down > 0 THEN down ELSE 0]

NoAdx == << None, None, None >>

\* a variant of adx_di that asks for one bar fewer
adx_di_one_bar_fewer(highs_, lows_, closes_, period) ==
    IF Len(closes_) < period + 1 THEN NoAdx
    ELSE LET trs == true_range(highs_, lows_, closes_)
         IN  IF Len(trs) < period THEN NoAdx
             ELSE LET tr_rma  == rma(trs, period)
                      dmp_rma == rma(DmPlus(highs_, lows_), period)
                      dmn_rma == rma(DmMinus(highs_, lows_), period)
                  IN  IF IsNone(tr_rma) THEN NoAdx
                      ELSE IF Val(tr_rma) = 0 THEN NoAdx
                      ELSE IF IsNone(dmp_rma) \/ IsNone(dmn_rma) THEN NoAdx
                      ELSE LET dip == Ratio(100 * Val(dmp_rma), Val(tr_rma))
                               dim == Ratio(100 * Val(dmn_rma), Val(tr_rma))
                               dx  == IF dip + dim <= 0 THEN 0
                                      ELSE Ratio(100 * Abs(dip - dim), dip + dim)
                           IN  << Some(dip), Some(dim), Some(dx) >>

\* returns << +DI, -DI, ADX >>
adx_di(highs_, lows_, closes_, period) ==
    IF Len(closes_) < period + 2 THEN NoAdx
    ELSE LET trs == true_range(highs_, lows_, closes_)
         IN  IF Len(trs) < period THEN NoAdx
             ELSE LET tr_rma  == rma(trs, period)
                      dmp_rma == rma(DmPlus(highs_, lows_), period)
                      dmn_rma == rma(DmMinus(highs_, lows_), period)
                  IN  IF IsNone(tr_rma) THEN NoAdx
                      ELSE IF Val(tr_rma) = 0 THEN NoAdx
                      ELSE IF IsNone(dmp_rma) \/ IsNone(dmn_rma) THEN NoAdx
                      ELSE LET dip == Ratio(100 * Val(dmp_rma), Val(tr_rma))
                               dim == Ratio(100 * Val(dmn_rma), Val(tr_rma))
                               dx  == IF dip + dim <= 0 THEN 0
                                      ELSE Ratio(100 * Abs(dip - dim), dip + dim)
                           IN  << Some(dip), Some(dim), Some(dx) >>

ao_value(highs_, lows_) ==
    LET hl2   == [i \in 1 .. Min2(Len(highs_), Len(lows_)) |->
                     Div(highs_[i] + lows_[i], 2)]
        sma5  == sma(hl2, 5)
        sma34 == sma(hl2, 34)
    IN  IF IsNone(sma5) \/ IsNone(sma34) THEN None
        ELSE Some(Val(sma5) - Val(sma34))

\* the values e takes in  for price in data[lo .. hi]: e = EmaStep(price, e)
RECURSIVE EmaSeriesLoop(_, _, _, _, _)
EmaSeriesLoop(data, period, e, lo, hi) ==
    IF lo > hi THEN << >>
    ELSE IF lo = hi THEN << EmaStep(data[lo], e, period) >>
    ELSE LET mid  == (lo + hi) \div 2
             left == EmaSeriesLoop(data, period, e, lo, mid)
         IN  IF left = left
             THEN left \o EmaSeriesLoop(data, period, left[Len(left)], mid + 1, hi)
             ELSE left

\* the running EMA that starts at data[0] and is stepped over every price,
\* the first included
EmaSeries(data, period) == EmaSeriesLoop(data, period, data[1], 1, Len(data))

\* the loop of macd_hist: macd_series.append(e12 - e26) at every price
MacdSeries(closes_) ==
    LET e12 == EmaSeries(closes_, 12)
        e26 == EmaSeries(closes_, 26)
    IN  [i \in 1 .. Len(closes_) |-> e12[i] - e26[i]]

\* returns << macd line, signal, hist_pair >>; hist_pair is None or
\* << hist, hist_prev >> with hist_prev None or present
macd_hist(closes_) ==
    IF IsNone(ema(closes_, 12)) \/ IsNone(ema(closes_, 26)) THEN NoAdx
    ELSE LET macd_series == MacdSeries(closes_)
             n           == Len(macd_series)
             signal      == ema(macd_series, 9)
         IN  IF IsNone(signal) THEN NoAdx
             ELSE LET hist      == macd_series[n] - Val(signal)
                      hist_prev ==
                          IF n > 10
                          THEN Some(macd_series[n - 1]
                                    - Val(ema(SubSeq(macd_series, 1, n - 1), 9)))
                          ELSE None
                  IN  << Some(macd_series[n]), signal, << hist, hist_prev >> >>

\* macd_line of macd_calc: at every bar the difference of the two EMAs of
\* the prefix that ends there, None where one of them is None
MacdLine(data, fast, slow) ==
    [i \in 1 .. Len(data) |->
        LET sub == SubSeq(data, 1, i)
            f   == ema(sub, fast)
            s   == ema(sub, slow)
        IN  IF IsNone(f) \/ IsNone(s) THEN None ELSE Some(Val(f) - Val(s))]

\* macd_clean = [m for m in macd_line if m is not None]
MacdClean(macd_line) ==
    LET present == SelectSeq(macd_line, LAMBDA m : ~IsNone(m))
    IN  [i \in 1 .. Len(present) |-> Val(present[i])]

\* the shared helper: returns << macd, signal, hist >>, all None or all present
macd_calc(data, fast, slow, signal) ==
    IF Len(data) < slow + signal THEN NoAdx
    ELSE LET macd_clean == MacdClean(MacdLine(data, fast, slow))
         IN  IF Len(macd_clean) < signal THEN NoAdx
             ELSE LET signal_val == ema(macd_clean, signal)
                      macd_val   == macd_clean[Len(macd_clean)]
                  IN  IF IsNone(signal_val) THEN NoAdx
                      ELSE << Some(macd_val), signal_val,
                              Some(macd_val - Val(signal_val)) >>

\* the rolling RSI of stoch_rsi_k: one value for each i in rlen .. len - 1
RsiVals(closes_, rlen) ==
    LET gains  == Gains(closes_)
        losses == Losses(closes_)
    IN  [j \in 1 .. Len(closes_) - rlen |->
            RsiOf(Div(SumRange(gains, j, j + rlen - 1), rlen),
                  Div(SumRange(losses, j, j + rlen - 1), rlen))]

stoch_rsi_k(closes_, rlen, stochlen, smooth) ==
    IF Len(closes_) < rlen + stochlen THEN None
    ELSE LET rsi_vals == RsiVals(closes_, rlen)
         IN  IF Len(rsi_vals) < stochlen THEN None
             ELSE LET hh == MaxLast(rsi_vals, stochlen)
                      ll == MinLast(rsi_vals, stochlen)
                  IN  IF hh = ll THEN Some(50 * SCALE)
                      ELSE Some(Ratio((rsi_vals[Len(rsi_vals)] - ll) * 100, hh - ll))

\* a variant of williams_r that is absent when the window has no range
williams_r_absent_without_range(highs_, lows_, closes_, period) ==
    IF Len(closes_) < period THEN None
    ELSE LET hh == MaxLast(highs_, period)
             ll == MinLast(lows_, period)
         IN  IF hh = ll THEN None
             ELSE Some(Ratio(100 * (closes_[Len(closes_)] - hh), hh - ll))

williams_r(highs_, lows_, closes_, period) ==
    IF Len(closes_) < period THEN None
    ELSE LET hh == MaxLast(highs_, period)
             ll == MinLast(lows_, period)
         IN  IF hh = ll THEN Some(0)
             ELSE Some(Ratio(100 * (closes_[Len(closes_)] - hh), hh - ll))

\* buying pressure and true range of bar i (i >= 2)
calc_bp(lows_, closes_, i) == closes_[i] - Min2(lows_[i], closes_[i - 1])

calc_tr(highs_, lows_, closes_, i) ==
    Max2(highs_[i], closes_[i - 1]) - Min2(lows_[i], closes_[i - 1])

BpSum(lows_, closes_, lo, hi) ==
    SumRange([i \in 1 .. hi |-> IF i < lo THEN 0 ELSE calc_bp(lows_, closes_, i)],
             lo, hi)

TrSum(highs_, lows_, closes_, lo, hi) ==
    SumRange([i \in 1 .. hi |->
                 IF i < lo THEN 0 ELSE calc_tr(highs_, lows_, closes_, i)], lo, hi)

avg_bp_tr(highs_, lows_, closes_, length) ==
    LET n      == Len(closes_)
        bp_sum == BpSum(lows_, closes_, n - length + 1, n)
        tr_sum == TrSum(highs_, lows_, closes_, n - length + 1, n)
    IN  IF tr_sum # 0 THEN Ratio(bp_sum, tr_sum) ELSE 0

\* a variant of ultimate_osc that is absent when a window has no true range
ultimate_osc_absent_without_range(highs_, lows_, closes_, a, b, c) ==
    IF Len(closes_) < c + 1 THEN None
    ELSE IF \E w \in {a, b, c} :
               TrSum(highs_, lows_, closes_, Len(closes_) - w + 1, Len(closes_)) = 0
    THEN None
    ELSE LET avg7  == avg_bp_tr(highs_, lows_, closes_, a)
             avg14 == avg_bp_tr(highs_, lows_, closes_, b)
             avg28 == avg_bp_tr(highs_, lows_, closes_, c)
         IN  Some(Div(100 * (4 * avg7 + 2 * avg14 + avg28), 7))

ultimate_osc(highs_, lows_, closes_, a, b, c) ==
    IF Len(closes_) < c + 1 THEN None
    ELSE LET avg7  == avg_bp_tr(highs_, lows_, closes_, a)
             avg14 == avg_bp_tr(highs_, lows_, closes_, b)
             avg28 == avg_bp_tr(highs_, lows_, closes_, c)
         IN  Some(Div(100 * (4 * avg7 + 2 * avg14 + avg28), 7))

\* reads the enclosing highs and lows, not its closes_ argument
ichimoku_baseline(highs_, lows_, closes_, period) ==
    IF Len(highs_) < period \/ Len(lows_) < period THEN None
    ELSE Some(Div(MaxLast(highs_, period) + MinLast(lows_, period), 2))

(***************************************************************************)
(* The OHLCV rows the exchange may return.  A row is a bar                 *)
(* [open, high, low, close, volume] in whole price units; the rows are     *)
(* chronological, oldest first, and satisfy                                *)
(* high >= max(open, close) >= min(open, close) >= low > 0, volume >= 0.   *)
(***************************************************************************)
MinBars == 50

FetchLimit == 200

BasePrice == 500

MaxJump == 1

MaxVolume == 1

JumpUnit == 3

\* the last second the clock can show
MaxClock == 1

\* the bar counts tried: around every minimum window of the scorer
Lengths == {0, 1, 13, 14, 30, 49, MinBars, 51, 55, 100, 199, FetchLimit}

\* slope per bar, wave amplitude, upper wick, lower wick, whether a bar
\* opens at the previous close (body) or at its own close, and whether the
\* volume varies from bar to bar (vw = 1) or is constant (vw = 0)
\* (the last one has a negative upper wick: its highs lie below its lows)
Shapes ==
    { [slope |-> 0,  amp |-> 0, hw |-> 0,  lw |-> 0, body |-> FALSE, vw |-> 0],
      [slope |-> 0,  amp |-> 0, hw |-> 2,  lw |-> 1, body |-> FALSE, vw |-> 0],
      [slope |-> 1,  amp |-> 0, hw |-> 0,  lw |-> 0, body |-> FALSE, vw |-> 0],
      [slope |-> 1,  amp |-> 0, hw |-> 1,  lw |-> 1, body |-> TRUE,  vw |-> 1],
      [slope |-> 2,  amp |-> 0, hw |-> 60, lw |-> 0, body |-> TRUE,  vw |-> 1],
      [slope |-> -1, amp |-> 0, hw |-> 0,  lw |-> 0, body |-> FALSE, vw |-> 0],
      [slope |-> -1, amp |-> 0, hw |-> 1,  lw |-> 2, body |-> TRUE,  vw |-> 1],
      [slope |-> 0,  amp |-> 3, hw |-> 1,  lw |-> 1, body |-> TRUE,  vw |-> 1],
      [slope |-> 1,  amp |-> 2, hw |-> 0,  lw |-> 3, body |-> TRUE,  vw |-> 1],
      [slope |-> -1, amp |-> 4, hw |-> 2,  lw |-> 0, body |-> TRUE,  vw |-> 1],
      [slope |-> 1,  amp |-> 0, hw |-> -2, lw |-> 0, body |-> TRUE,  vw |-> 1] }

\* a triangle wave of period 8: 0 1 2 3 4 3 2 1
Tri(i) == LET r == i % 8 IN IF r <= 4 THEN r ELSE 8 - r

CloseAt(sh, n, jump, i) ==
    BasePrice + sh.slope * (i - 1) + sh.amp * Tri(i)
        + (IF i = n THEN jump * JumpUnit ELSE 0)

Bar(sh, n, jump, vol, i) ==
    LET c == CloseAt(sh, n, jump, i)
        o == IF sh.body /\ i > 1 THEN CloseAt(sh, n, jump, i - 1) ELSE c
    IN  [open   |-> o,
         high   |-> Max2(o, c) + sh.hw,
         low    |-> Min2(o, c) - sh.lw,
         close  |-> c,
         volume |-> vol * (5 + sh.vw * (i % 3))]

MkSeries(sh, n, jump, vol) == [i \in 1 .. n |-> Bar(sh, n, jump, vol, i)]

(***************************************************************************)
(* State of one invocation of get_ta_summary                               *)
(***************************************************************************)
VARIABLES
    pc,             \* the position in get_ta_summary
    ohlcv,          \* the rows fetched
    result,         \* what the call returned
    ind,            \* the indicator locals: rsi, stoch, cci_val, ...
    osc_buy, osc_sell, total_osc,
    ma_buy, ma_sell, ma_possible, total_ma,
    pivot_buy, pivot_sell, pivot_possible, total_pivot,
    total, osc_neutral, ma_neutral, pivot_neutral,
    total_buy, total_sell, total_neutral,
    buy_pct, sell_pct, neutral_pct,
    overall,
    ts,             \* the time read for the head line of the report
    now,            \* the clock: the latest time any call has read
    other,          \* the locals of a second call, while it is suspended
    call,           \* an indicator function called on its own: its
                    \* arguments and what it returned
    piv,            \* a prior bar and a price, and the pivot levels the TA
                    \* summary and get_pivot_points computed from them
    store,          \* the alerts file: for each alert id None or the alert
    procs,          \* the calls of the alert tools in progress, one for each
                    \* caller: the operation, its local alerts, what it returned
    stamp,          \* the number of alert ids made from the clock so far
    checks,         \* the number of check_alerts calls begun so far
    reports,        \* for each alert id, in how many triggered lists it was
    created,        \* the ids whose set_price_alert has returned
    removed,        \* the ids whose remove_alert has returned
    retry           \* a call of retry_on_error: its position, its attempt
                    \* and the outcomes of the calls of func so far

\* the state that get_ta_summary does not touch
alert_vars == << store, procs, stamp, checks, reports, created, removed >>

outside == << call, piv, alert_vars, retry >>

\* no indicator function has been called on its own
NoCall == << >>

\* no pivot levels are being computed on their own
NoPivots == << >>

\* retry_on_error has not been called
NoRetry == << >>

\* the alert tools are not in use
NoAlertTools ==
    /\ store = << >>
    /\ procs = << >>
    /\ stamp = 0
    /\ checks = 0
    /\ reports = << >>
    /\ created = {}
    /\ removed = {}

osc_tally == << osc_buy, osc_sell, total_osc >>

ma_tally == << ma_buy, ma_sell, ma_possible, total_ma >>

pivot_tally == << pivot_buy, pivot_sell, pivot_possible, total_pivot >>

totals ==
    << total, osc_neutral, ma_neutral, pivot_neutral,
       total_buy, total_sell, total_neutral, buy_pct, sell_pct, neutral_pct >>

vars ==
    << pc, ohlcv, result, ind, osc_tally, ma_tally, pivot_tally,
       totals, overall, ts, now, other, outside >>

\* the state of get_ta_summary
ta_vars ==
    << pc, ohlcv, result, ind, osc_tally, ma_tally, pivot_tally, totals,
       overall, ts, now, other >>

\* the lists get_ta_summary takes out of the rows, as fixed-point numbers
opens == [i \in 1 .. Len(ohlcv) |-> ohlcv[i].open * SCALE]

highs == [i \in 1 .. Len(ohlcv) |-> ohlcv[i].high * SCALE]

lows == [i \in 1 .. Len(ohlcv) |-> ohlcv[i].low * SCALE]

closes == [i \in 1 .. Len(ohlcv) |-> ohlcv[i].close * SCALE]

volumes == [i \in 1 .. Len(ohlcv) |-> ohlcv[i].volume]

current == closes[Len(closes)]

\* a local that has not been assigned yet
Unset == None

NoIndicators ==
    [rsi |-> Unset, stoch |-> Unset, cci_val |-> Unset, di_plus |-> Unset,
     di_minus |-> Unset, adx_val |-> Unset, ao |-> Unset, mom |-> Unset,
     hist_pair |-> Unset, sr_k |-> Unset, wr |-> Unset, bb_sma30 |-> Unset,
     uo |-> Unset]

NoPct == [num |-> 0, den |-> 1]

\* the locals of the call that is running
Locals ==
    [pc |-> pc, ohlcv |-> ohlcv, result |-> result, ind |-> ind,
     osc_buy |-> osc_buy, osc_sell |-> osc_sell, total_osc |-> total_osc,
     ma_buy |-> ma_buy, ma_sell |-> ma_sell, ma_possible |-> ma_possible,
     total_ma |-> total_ma, pivot_buy |-> pivot_buy,
     pivot_sell |-> pivot_sell, pivot_possible |-> pivot_possible,
     total_pivot |-> total_pivot, total |-> total,
     osc_neutral |-> osc_neutral, ma_neutral |-> ma_neutral,
     pivot_neutral |-> pivot_neutral, total_buy |-> total_buy,
     total_sell |-> total_sell, total_neutral |-> total_neutral,
     buy_pct |-> buy_pct, sell_pct |-> sell_pct,
     neutral_pct |-> neutral_pct, overall |-> overall, ts |-> ts]

\* the locals of a call that has not started
NotCalled ==
    [pc |-> "fetch", ohlcv |-> << >>, result |-> "none",
     ind |-> NoIndicators, osc_buy |-> 0, osc_sell |-> 0, total_osc |-> 0,
     ma_buy |-> 0, ma_sell |-> 0, ma_possible |-> 0, total_ma |-> 0,
     pivot_buy |-> 0, pivot_sell |-> 0, pivot_possible |-> 0,
     total_pivot |-> 0, total |-> 0, osc_neutral |-> 0, ma_neutral |-> 0,
     pivot_neutral |-> 0, total_buy |-> 0, total_sell |-> 0,
     total_neutral |-> 0, buy_pct |-> NoPct, sell_pct |-> NoPct,
     neutral_pct |-> NoPct, overall |-> "none", ts |-> Unset]

\* no call of get_ta_summary has started
NotRunning ==
    /\ pc = "fetch"
    /\ ohlcv = << >>
    /\ result = "none"
    /\ ind = NoIndicators
    /\ osc_buy = 0 /\ osc_sell = 0 /\ total_osc = 0
    /\ ma_buy = 0 /\ ma_sell = 0 /\ ma_possible = 0 /\ total_ma = 0
    /\ pivot_buy = 0 /\ pivot_sell = 0 /\ pivot_possible = 0 /\ total_pivot = 0
    /\ total = 0 /\ osc_neutral = 0 /\ ma_neutral = 0 /\ pivot_neutral = 0
    /\ total_buy = 0 /\ total_sell = 0 /\ total_neutral = 0
    /\ buy_pct = NoPct /\ sell_pct = NoPct /\ neutral_pct = NoPct
    /\ overall = "none"
    /\ ts = Unset
    /\ now = 0
    /\ other = NotCalled

Init ==
    /\ NotRunning
    /\ call = NoCall
    /\ piv = NoPivots
    /\ NoAlertTools
    /\ retry = NoRetry

\* EXCHANGE.fetch_ohlcv(pair, timeframe, limit=200): rows, or an exception
Fetch ==
    /\ pc = "fetch"
    /\ \/ /\ \E sh \in Shapes, n \in Lengths,
               jump \in -MaxJump .. MaxJump, vol \in 0 .. MaxVolume :
                 ohlcv' = MkSeries(sh, n, jump, vol)
          /\ pc' = "check"
          /\ UNCHANGED result
       \/ /\ pc' = "done"
          /\ result' = "error_ohlcv"
          /\ UNCHANGED ohlcv
    /\ UNCHANGED << ind, osc_tally, ma_tally, pivot_tally, totals, overall,
                    ts, now, other, outside >>

\* a variant of the length check that also refuses a series of exactly 50 bars
InsufficientDataInclusive(rows) == Len(rows) <= MinBars

\* a variant of the length check that lets every series with a bar through
InsufficientDataEmptyOnly(rows) == Len(rows) < 1

InsufficientData(rows) == Len(rows) < MinBars

\* if len(ohlcv) < 50: return "Not enough data"
LengthCheck ==
    /\ pc = "check"
    /\ IF InsufficientData(ohlcv)
       THEN pc' = "done" /\ result' = "not_enough_data"
       ELSE pc' = "rsi" /\ UNCHANGED result
    /\ UNCHANGED << ohlcv, ind, osc_tally, ma_tally, pivot_tally, totals,
                    overall, ts, now, other, outside >>

(***************************************************************************)
(* Oscillators: each step computes one indicator and adds its signal       *)
(* ("buy", "sell" or "neutral") to osc_buy / osc_sell.                     *)
(***************************************************************************)
\* a variant in which a value on a threshold is already a Buy or a Sell
ThresholdSignalInclusive(v, lower, upper) ==
    IF v <= lower * SCALE THEN "buy"
    ELSE IF v >= upper * SCALE THEN "sell"
    ELSE "neutral"

\* if v < lower: buy; elif v > upper: sell  (lower and upper in whole units)
ThresholdSignal(v, lower, upper) ==
    IF v < lower * SCALE THEN "buy"
    ELSE IF v > upper * SCALE THEN "sell"
    ELSE "neutral"

\* the same under  if v is not None
GuardedThresholdSignal(x, lower, upper) ==
    IF IsNone(x) THEN "neutral" ELSE ThresholdSignal(Val(x), lower, upper)

\* a variant that follows the DI lines whatever the ADX
AdxSignalAnyStrength(dip, dim, adx) ==
    IF IsNone(dip) \/ IsNone(dim) \/ IsNone(adx) THEN "neutral"
    ELSE IF Val(dip) > Val(dim) THEN "buy"
    ELSE IF Val(dim) > Val(dip) THEN "sell"
    ELSE "neutral"

AdxSignal(dip, dim, adx) ==
    IF IsNone(dip) \/ IsNone(dim) \/ IsNone(adx) THEN "neutral"
    ELSE IF Val(adx) > 25 * SCALE
         THEN IF Val(dip) > Val(dim) THEN "buy"
              ELSE IF Val(dim) > Val(dip) THEN "sell"
              ELSE "neutral"
         ELSE "neutral"

AoSignal(x) ==
    IF IsNone(x) THEN "neutral"
    ELSE IF Val(x) > 0 THEN "buy"
    ELSE IF Val(x) < 0 THEN "sell"
    ELSE "neutral"

\* mom = current - closes[-11] if len(closes) > 10 else 0
Momentum(closes_) ==
    IF Len(closes_) > 10
    THEN closes_[Len(closes_)] - closes_[Len(closes_) - 10]
    ELSE 0

\* a variant in which a momentum of zero is a Buy
MomSignalZeroBuys(m) == IF m >= 0 THEN "buy" ELSE "sell"

MomSignal(m) == IF m > 0 THEN "buy" ELSE "sell"

\* a variant in which an unchanged histogram is a Buy
MacdSignalFlatBuys(hp) ==
    IF IsNone(hp) THEN "neutral"
    ELSE IF IsNone(hp[2]) THEN "neutral"
    ELSE IF hp[1] >= Val(hp[2]) THEN "buy"
    ELSE "sell"

MacdSignal(hp) ==
    IF IsNone(hp) THEN "neutral"
    ELSE IF IsNone(hp[2]) THEN "neutral"
    ELSE IF hp[1] > Val(hp[2]) THEN "buy"
    ELSE "sell"

\* a variant that adds bull power and bear power where the code subtracts
BullBearOfSum(highs_, lows_, closes_) ==
    LET ema13 == ema(closes_, 13)
    IN  IF IsNone(ema13) THEN None
        ELSE IF Len(closes_) >= 30
        THEN LET ema_series == EmaSeries(closes_, 13)
                 bb_series  == [i \in 1 .. Len(closes_) |->
                                   (highs_[i] - ema_series[i])
                                     + (lows_[i] - ema_series[i])]
             IN  sma(bb_series, 30)
        ELSE LET bull == highs_[Len(highs_)] - Val(ema13)
                 bear == lows_[Len(lows_)] - Val(ema13)
             IN  Some(bull + bear)

\* the Bull/Bear Power value that is compared with 0: with 30 closes or more
\* the SMA(30) of (high - EMA13) - (low - EMA13), else bull - bear of the
\* last bar; None when EMA(13) is absent
BullBear(highs_, lows_, closes_) ==
    LET ema13 == ema(closes_, 13)
    IN  IF IsNone(ema13) THEN None
        ELSE IF Len(closes_) >= 30
        THEN LET ema_series == EmaSeries(closes_, 13)
                 bb_series  == [i \in 1 .. Len(closes_) |->
                                   (highs_[i] - ema_series[i])
                                     - (lows_[i] - ema_series[i])]
             IN  sma(bb_series, 30)
        ELSE LET bull == highs_[Len(highs_)] - Val(ema13)
                 bear == lows_[Len(lows_)] - Val(ema13)
             IN  Some(bull - bear)

BullBearSignal(x) ==
    IF IsNone(x) THEN "neutral"
    ELSE IF Val(x) > 0 THEN "buy"
    ELSE "sell"

\* osc_buy += 1 / osc_sell += 1 for the signal, and on to the next step
OscStep(sig, next) ==
    /\ osc_buy' = IF sig = "buy" THEN osc_buy + 1 ELSE osc_buy
    /\ osc_sell' = IF sig = "sell" THEN osc_sell + 1 ELSE osc_sell
    /\ pc' = next
    /\ UNCHANGED << ohlcv, result, ma_tally, pivot_tally, totals, overall,
                    ts, now, other, outside >>

\* 1. RSI(14): compared with 30 / 70 with no test for None
ScoreRSI ==
    /\ pc = "rsi"
    /\ LET v == rsi_series(closes, 14)
       IN  /\ ind' = [ind EXCEPT !.rsi = v]
           /\ IF IsNone(v)
              THEN /\ pc' = "done"
                   /\ result' = "type_error"
                   /\ UNCHANGED << ohlcv, osc_buy, osc_sell, ma_tally,
                                   pivot_tally, totals, overall,
                                   ts, now, other, outside >>
              ELSE OscStep(ThresholdSignal(Val(v), 30, 70), "stoch")
    /\ UNCHANGED total_osc

\* 2. Stochastic %K(14,3,3): compared with 20 / 80 with no test for None
ScoreStoch ==
    /\ pc = "stoch"
    /\ LET v == stoch_k(highs, lows, closes, 14, 3)
       IN  /\ ind' = [ind EXCEPT !.stoch = v]
           /\ IF IsNone(v)
              THEN /\ pc' = "done"
                   /\ result' = "type_error"
                   /\ UNCHANGED << ohlcv, osc_buy, osc_sell, ma_tally,
                                   pivot_tally, totals, overall,
                                   ts, now, other, outside >>
              ELSE OscStep(ThresholdSignal(Val(v), 20, 80), "cci")
    /\ UNCHANGED total_osc

\* 3. CCI(20)
ScoreCCI ==
    /\ pc = "cci"
    /\ LET v == cci(closes, 20)
       IN  /\ ind' = [ind EXCEPT !.cci_val = v]
           /\ OscStep(GuardedThresholdSignal(v, -100, 100), "adx")
    /\ UNCHANGED total_osc

\* 4. ADX/DI(14), threshold 25
ScoreADX ==
    /\ pc = "adx"
    /\ LET r == adx_di(highs, lows, closes, 14)
       IN  /\ ind' = [ind EXCEPT !.di_plus = r[1], !.di_minus = r[2],
                                 !.adx_val = r[3]]
           /\ OscStep(AdxSignal(r[1], r[2], r[3]), "ao")
    /\ UNCHANGED total_osc

\* 5. Awesome Oscillator
ScoreAO ==
    /\ pc = "ao"
    /\ LET v == ao_value(highs, lows)
       IN  /\ ind' = [ind EXCEPT !.ao = v]
           /\ OscStep(AoSignal(v), "mom")
    /\ UNCHANGED total_osc

\* 6. Momentum(10)
ScoreMomentum ==
    /\ pc = "mom"
    /\ LET m == Momentum(closes)
       IN  /\ ind' = [ind EXCEPT !.mom = Some(m)]
           /\ OscStep(MomSignal(m), "macd")
    /\ UNCHANGED total_osc

\* 7. MACD histogram slope
ScoreMACD ==
    /\ pc = "macd"
    /\ LET r == macd_hist(closes)
       IN  /\ ind' = [ind EXCEPT !.hist_pair = r[3]]
           /\ OscStep(MacdSignal(r[3]), "stoch_rsi")
    /\ UNCHANGED total_osc

\* 8. Stochastic RSI %K (14, 14)
ScoreStochRSI ==
    /\ pc = "stoch_rsi"
    /\ LET v == stoch_rsi_k(closes, 14, 14, 3)
       IN  /\ ind' = [ind EXCEPT !.sr_k = v]
           /\ OscStep(GuardedThresholdSignal(v, 20, 80), "williams")
    /\ UNCHANGED total_osc

\* 9. Williams %R(14), thresholds -80 / -20
ScoreWilliams ==
    /\ pc = "williams"
    /\ LET v == williams_r(highs, lows, closes, 14)
       IN  /\ ind' = [ind EXCEPT !.wr = v]
           /\ OscStep(GuardedThresholdSignal(v, -80, -20), "bull_bear")
    /\ UNCHANGED total_osc

\* 10. Bull/Bear Power
ScoreBullBear ==
    /\ pc = "bull_bear"
    /\ LET v == BullBear(highs, lows, closes)
       IN  /\ ind' = [ind EXCEPT !.bb_sma30 = v]
           /\ OscStep(BullBearSignal(v), "uo")
    /\ UNCHANGED total_osc

TotalOsc == 11

\* 11. Ultimate Oscillator (7, 14, 28), thresholds 30 / 70; then total_osc = 11
ScoreUO ==
    /\ pc = "uo"
    /\ LET v == ultimate_osc(highs, lows, closes, 7, 14, 28)
       IN  /\ ind' = [ind EXCEPT !.uo = v]
           /\ OscStep(GuardedThresholdSignal(v, 30, 70), "ma")
    /\ total_osc' = TotalOsc

(***************************************************************************)
(* Moving averages                                                         *)
(***************************************************************************)
\* the 17 values handed to add_ma_signal, in the order of the calls
MaValues(highs_, lows_, closes_, volumes_) ==
    << ema(closes_, 5),   sma(closes_, 5),
       ema(closes_, 10),  sma(closes_, 10),
       ema(closes_, 21),  sma(closes_, 20),
       ema(closes_, 30),  sma(closes_, 30),
       ema(closes_, 55),  sma(closes_, 50),
       ema(closes_, 100), sma(closes_, 100),
       ema(closes_, 200), sma(closes_, 200),
       ichimoku_baseline(highs_, lows_, closes_, 26),
       vwma(closes_, volumes_, 20),
       hma(closes_, 9) >>

\* a variant of add_ma_signal that counts an absent average in ma_possible
add_ma_signal_absent_counted(t, val, cur) ==
    IF IsNone(val) THEN [t EXCEPT !.possible = @ + 1]
    ELSE IF cur > Val(val)
         THEN [t EXCEPT !.possible = @ + 1, !.buy = @ + 1]
         ELSE [t EXCEPT !.possible = @ + 1, !.sell = @ + 1]

\* a variant of add_ma_signal in which a price equal to the average is a Buy
add_ma_signal_equal_buys(t, val, cur) ==
    IF IsNone(val) THEN t
    ELSE IF cur >= Val(val)
         THEN [t EXCEPT !.possible = @ + 1, !.buy = @ + 1]
         ELSE [t EXCEPT !.possible = @ + 1, !.sell = @ + 1]

\* a variant of add_ma_signal that forgets ma_possible += 1 on the Sell side
add_ma_signal_sell_uncounted(t, val, cur) ==
    IF IsNone(val) THEN t
    ELSE IF cur > Val(val)
         THEN [t EXCEPT !.possible = @ + 1, !.buy = @ + 1]
         ELSE [t EXCEPT !.sell = @ + 1]

\* add_ma_signal(val) on the counters t = [buy, sell, possible]
add_ma_signal(t, val, cur) ==
    IF IsNone(val) THEN t
    ELSE IF cur > Val(val)
         THEN [t EXCEPT !.possible = @ + 1, !.buy = @ + 1]
         ELSE [t EXCEPT !.possible = @ + 1, !.sell = @ + 1]

RECURSIVE AddMaSignals(_, _, _, _)
AddMaSignals(t, vals, i, cur) ==
    IF i > Len(vals) THEN t
    ELSE LET t2 == add_ma_signal(t, vals[i], cur)
         IN  IF t2 = t2 THEN AddMaSignals(t2, vals, i + 1, cur) ELSE t2

\* the rows, with the closes as a call left them
WithCloses(rows, closes_) ==
    [i \in 1 .. Len(rows) |-> [rows[i] EXCEPT !.close = Div(closes_[i], SCALE)]]

MovingAverages ==
    /\ pc = "ma"
    /\ LET t == AddMaSignals([buy |-> 0, sell |-> 0, possible |-> 0],
                             MaValues(highs, lows, closes, volumes), 1, current)
       IN  /\ ma_buy' = t.buy
           /\ ma_sell' = t.sell
           /\ ma_possible' = t.possible
           /\ total_ma' = t.possible
    /\ ohlcv' = WithCloses(ohlcv, hma_data(closes, 9))
    /\ pc' = "pivots"
    /\ UNCHANGED << result, ind, osc_tally, pivot_tally, totals, overall,
                    ts, now, other, outside >>

(***************************************************************************)
(* Pivots: R1 and S1 of the four formulas on the bar before the last       *)
(***************************************************************************)
PivotKinds == << "traditional", "fibonacci", "woodie", "camarilla" >>

\* << R1, S1 >> of one formula from the fixed-point open, high, low, close
PivotLevels(kind, p_open, p_high, p_low, p_close) ==
    LET tr_pp  == Div(p_high + p_low + p_close, 3)
        range_ == p_high - p_low
        wo_pp  == Div(p_high + p_low + 2 * p_open, 4)
    IN  CASE kind = "traditional" ->
               << tr_pp + tr_pp - p_low, tr_pp - (p_high - tr_pp) >>
          [] kind = "fibonacci" ->
               << tr_pp + Div(range_ * 382, 1000), tr_pp - Div(range_ * 382, 1000) >>
          [] kind = "woodie" ->
               << wo_pp + wo_pp - p_low, wo_pp - (p_high - wo_pp) >>
          [] kind = "camarilla" ->
               << p_close + Div(range_ * 11, 120), p_close - Div(range_ * 11, 120) >>

\* a variant in which a price on R1 is a Buy and a price on S1 a Sell
PivotSignalInclusive(cur, r1, s1) ==
    IF cur >= r1 THEN "buy"
    ELSE IF cur <= s1 THEN "sell"
    ELSE "neutral"

PivotSignal(cur, r1, s1) ==
    IF cur > r1 THEN "buy"
    ELSE IF cur < s1 THEN "sell"
    ELSE "neutral"

RECURSIVE AddPivots(_, _, _, _)
AddPivots(t, prev, i, cur) ==
    IF i > Len(PivotKinds) THEN t
    ELSE LET lv  == PivotLevels(PivotKinds[i], prev.open * SCALE, prev.high * SCALE,
                                prev.low * SCALE, prev.close * SCALE)
             sig == PivotSignal(cur, lv[1], lv[2])
         IN  AddPivots([possible |-> t.possible + 1,
                        buy      |-> IF sig = "buy" THEN t.buy + 1 ELSE t.buy,
                        sell     |-> IF sig = "sell" THEN t.sell + 1 ELSE t.sell],
                       prev, i + 1, cur)

Pivots ==
    /\ pc = "pivots"
    /\ LET zero == [buy |-> 0, sell |-> 0, possible |-> 0]
           t    == IF Len(ohlcv) >= 2
                   THEN AddPivots(zero, ohlcv[Len(ohlcv) - 1], 1, current)
                   ELSE zero
       IN  /\ pivot_buy' = t.buy
           /\ pivot_sell' = t.sell
           /\ pivot_possible' = t.possible
           /\ total_pivot' = t.possible
    /\ pc' = "totals"
    /\ UNCHANGED << ohlcv, result, ind, osc_tally, ma_tally, totals, overall,
                    ts, now, other, outside >>

(***************************************************************************)
(* Totals, percentages and the overall signal                              *)
(***************************************************************************)
\* a variant of the percentage that divides in whole numbers
PctWhole(count, tot) ==
    IF tot > 0 THEN [num |-> (count * 100) \div tot, den |-> 1] ELSE NoPct

\* (count / total) * 100 if total > 0 else 0.0, as an exact fraction
Pct(count, tot) ==
    IF tot > 0 THEN [num |-> count * 100, den |-> tot] ELSE NoPct

\* pct > k
PctAbove(pct, k) == pct.num > k * pct.den

Totals ==
    /\ pc = "totals"
    /\ LET tot == total_osc + total_ma + total_pivot
           on  == total_osc - osc_buy - osc_sell
           mn  == total_ma - ma_buy - ma_sell
           pn  == total_pivot - pivot_buy - pivot_sell
           tb  == osc_buy + ma_buy + pivot_buy
           tsell == osc_sell + ma_sell + pivot_sell
           tn  == on + mn + pn
       IN  /\ total' = tot
           /\ osc_neutral' = on
           /\ ma_neutral' = mn
           /\ pivot_neutral' = pn
           /\ total_buy' = tb
           /\ total_sell' = tsell
           /\ total_neutral' = tn
           /\ buy_pct' = Pct(tb, tot)
           /\ sell_pct' = Pct(tsell, tot)
           /\ neutral_pct' = Pct(tn, tot)
    /\ pc' = "overall"
    /\ UNCHANGED << ohlcv, result, ind, osc_tally, ma_tally, pivot_tally, overall,
                    ts, now, other, outside >>

\* a variant of the decision in which BUY is only reached below 60 percent
OverallSignalBuyBand(bp, sp, ob, os, mb, ms, pb, ps) ==
    IF PctAbove(bp, 60) /\ ob > os /\ mb > ms /\ pb >= ps THEN "STRONG BUY"
    ELSE IF PctAbove(bp, 50) /\ ~PctAbove(bp, 60) THEN "BUY"
    ELSE IF PctAbove(sp, 60) /\ os > ob /\ ms > mb /\ ps >= pb THEN "STRONG SELL"
    ELSE IF PctAbove(sp, 50) THEN "SELL"
    ELSE "NEUTRAL"

\* a variant of the decision in which 40 percent of buys make a BUY
OverallSignalBuyFrom40(bp, sp, ob, os, mb, ms, pb, ps) ==
    IF PctAbove(bp, 60) /\ ob > os /\ mb > ms /\ pb >= ps THEN "STRONG BUY"
    ELSE IF PctAbove(bp, 40) THEN "BUY"
    ELSE IF PctAbove(sp, 60) /\ os > ob /\ ms > mb /\ ps >= pb THEN "STRONG SELL"
    ELSE IF PctAbove(sp, 50) THEN "SELL"
    ELSE "NEUTRAL"

OverallSignal(bp, sp, ob, os, mb, ms, pb, ps) ==
    IF PctAbove(bp, 60) /\ ob > os /\ mb > ms /\ pb >= ps THEN "STRONG BUY"
    ELSE IF PctAbove(bp, 50) THEN "BUY"
    ELSE IF PctAbove(sp, 60) /\ os > ob /\ ms > mb /\ ps >= pb THEN "STRONG SELL"
    ELSE IF PctAbove(sp, 50) THEN "SELL"
    ELSE "NEUTRAL"

Overall ==
    /\ pc = "overall"
    /\ overall' = OverallSignal(buy_pct, sell_pct, osc_buy, osc_sell,
                                ma_buy, ma_sell, pivot_buy, pivot_sell)
    /\ pc' = "report"
    /\ UNCHANGED << ohlcv, result, ind, osc_tally, ma_tally, pivot_tally, totals,
                    ts, now, other, outside >>

\* ts = datetime.utcnow() is read, and the formatted text, which starts with
\* ts, is returned
Report ==
    /\ pc = "report"
    /\ \E t \in now .. MaxClock :
          /\ ts' = Some(t)
          /\ now' = t
    /\ result' = "report"
    /\ pc' = "done"
    /\ UNCHANGED << ohlcv, ind, osc_tally, ma_tally, pivot_tally, totals, overall,
                    other, outside >>

(***************************************************************************)
(* Two calls of get_ta_summary at once                                     *)
(***************************************************************************)
PoolShapes == {sh \in Shapes : sh.body /\ sh.amp = 0 /\ sh.hw = 1}

PoolLengths == {MinBars - 1, MinBars}

\* the series the exchange returns when two calls run at once
Pool == {MkSeries(sh, n, 0, MaxVolume) : sh \in PoolShapes, n \in PoolLengths}

FetchPool ==
    /\ pc = "fetch"
    /\ \/ /\ \E rows \in Pool : ohlcv' = rows
          /\ pc' = "check"
          /\ UNCHANGED result
       \/ /\ pc' = "done"
          /\ result' = "error_ohlcv"
          /\ UNCHANGED ohlcv
    /\ UNCHANGED << ind, osc_tally, ma_tally, pivot_tally, totals, overall,
                    ts, now, other, outside >>

\* a variant in which the moving-average counters are one set shared by
\* all calls, as globals of the module would be
ResumedSharingMaCounters(saved, running) ==
    [saved EXCEPT !.ma_buy = running.ma_buy, !.ma_sell = running.ma_sell,
                  !.ma_possible = running.ma_possible]

\* the locals a suspended call finds when it resumes: its own, whatever the
\* call that ran in between did (the counters are locals of the outer call,
\* add_ma_signal reaches them with nonlocal)
Resumed(saved, running) == saved

\* the running call is suspended and the other one runs
Switch ==
    /\ other.pc # "done"
    /\ LET f == Resumed(other, Locals) IN
          /\ pc' = f.pc
          /\ ohlcv' = f.ohlcv
          /\ result' = f.result
          /\ ind' = f.ind
          /\ osc_buy' = f.osc_buy
          /\ osc_sell' = f.osc_sell
          /\ total_osc' = f.total_osc
          /\ ma_buy' = f.ma_buy
          /\ ma_sell' = f.ma_sell
          /\ ma_possible' = f.ma_possible
          /\ total_ma' = f.total_ma
          /\ pivot_buy' = f.pivot_buy
          /\ pivot_sell' = f.pivot_sell
          /\ pivot_possible' = f.pivot_possible
          /\ total_pivot' = f.total_pivot
          /\ total' = f.total
          /\ osc_neutral' = f.osc_neutral
          /\ ma_neutral' = f.ma_neutral
          /\ pivot_neutral' = f.pivot_neutral
          /\ total_buy' = f.total_buy
          /\ total_sell' = f.total_sell
          /\ total_neutral' = f.total_neutral
          /\ buy_pct' = f.buy_pct
          /\ sell_pct' = f.sell_pct
          /\ neutral_pct' = f.neutral_pct
          /\ overall' = f.overall
          /\ ts' = f.ts
    /\ other' = Locals
    /\ UNCHANGED << now, outside >>

Next ==
    \/ Fetch
    \/ LengthCheck
    \/ ScoreRSI
    \/ ScoreStoch
    \/ ScoreCCI
    \/ ScoreADX
    \/ ScoreAO
    \/ ScoreMomentum
    \/ ScoreMACD
    \/ ScoreStochRSI
    \/ ScoreWilliams
    \/ ScoreBullBear
    \/ ScoreUO
    \/ MovingAverages
    \/ Pivots
    \/ Totals
    \/ Overall
    \/ Report

Spec == Init /\ [][Next]_vars

NextTwo ==
    \/ FetchPool
    \/ LengthCheck
    \/ ScoreRSI
    \/ ScoreStoch
    \/ ScoreCCI
    \/ ScoreADX
    \/ ScoreAO
    \/ ScoreMomentum
    \/ ScoreMACD
    \/ ScoreStochRSI
    \/ ScoreWilliams
    \/ ScoreBullBear
    \/ ScoreUO
    \/ MovingAverages
    \/ Pivots
    \/ Totals
    \/ Overall
    \/ Report
    \/ Switch

SpecTwo == Init /\ [][NextTwo]_vars

(***************************************************************************)
(* The indicator functions called on their own, on short series too        *)
(***************************************************************************)
\* the longest series an indicator function is called on
MaxShort == 36

\* the periods tried
Periods == {1, 2, 7, 14}

\* flat, flat with wicks, waving and rising bars
ShortShapes == {sh \in Shapes : sh.slope = 0 \/ (sh.slope = 1 /\ sh.hw = 1)}

HighsOf(rows) == [i \in 1 .. Len(rows) |-> rows[i].high * SCALE]

LowsOf(rows) == [i \in 1 .. Len(rows) |-> rows[i].low * SCALE]

ClosesOf(rows) == [i \in 1 .. Len(rows) |-> rows[i].close * SCALE]

VolumesOf(rows) == [i \in 1 .. Len(rows) |-> rows[i].volume]

\* some series end with bars that repeat the last close without any range
QuietTail == 2

WithQuietTail(rows, q) ==
    IF rows = << >> THEN rows
    ELSE LET last == rows[Len(rows)]
         IN  rows \o [i \in 1 .. q |->
                        [open |-> last.close, high |-> last.close,
                         low |-> last.close, close |-> last.close,
                         volume |-> last.volume]]

\* the arguments of a call that has not been made yet
IndicatorsInit ==
    /\ NotRunning
    /\ piv = NoPivots
    /\ NoAlertTools
    /\ retry = NoRetry
    /\ \E sh \in ShortShapes, n \in 0 .. MaxShort, vol \in 0 .. MaxVolume,
          k \in Periods, q \in {0, QuietTail} :
            call = [fn |-> "none",
                    rows |-> WithQuietTail(MkSeries(sh, n, 0, vol), q),
                    period |-> k, ret |-> None]

\* the state that a call of an indicator function does not touch
not_call == << ta_vars, piv, alert_vars, retry >>

\* the function fn is called and returns v
Returns(fn, v) ==
    /\ call # NoCall
    /\ call.fn = "none"
    /\ call' = [call EXCEPT !.fn = fn, !.ret = v]

Call_sma ==
    /\ Returns("sma", sma(ClosesOf(call.rows), call.period))
    /\ UNCHANGED not_call

Call_ema ==
    /\ Returns("ema", ema(ClosesOf(call.rows), call.period))
    /\ UNCHANGED not_call

Call_wma ==
    /\ Returns("wma", wma(ClosesOf(call.rows), call.period))
    /\ UNCHANGED not_call

Call_hma ==
    /\ Returns("hma", hma(ClosesOf(call.rows), call.period))
    /\ UNCHANGED not_call

Call_vwma ==
    /\ Returns("vwma", vwma(ClosesOf(call.rows), VolumesOf(call.rows), call.period))
    /\ UNCHANGED not_call

Call_stddev ==
    /\ Returns("stddev", stddev(ClosesOf(call.rows), call.period))
    /\ UNCHANGED not_call

Call_rsi ==
    /\ Returns("rsi", rsi_series(ClosesOf(call.rows), call.period))
    /\ UNCHANGED not_call

Call_stoch_k ==
    /\ Returns("stoch_k", stoch_k(HighsOf(call.rows), LowsOf(call.rows),
                                  ClosesOf(call.rows), call.period, 3))
    /\ UNCHANGED not_call

Call_cci ==
    /\ Returns("cci", cci(ClosesOf(call.rows), call.period))
    /\ UNCHANGED not_call

Call_williams_r ==
    /\ Returns("williams_r", williams_r(HighsOf(call.rows), LowsOf(call.rows),
                                        ClosesOf(call.rows), call.period))
    /\ UNCHANGED not_call

Call_adx_di ==
    /\ Returns("adx_di", adx_di(HighsOf(call.rows), LowsOf(call.rows),
                                ClosesOf(call.rows), call.period))
    /\ UNCHANGED not_call

Call_ao_value ==
    /\ Returns("ao_value", ao_value(HighsOf(call.rows), LowsOf(call.rows)))
    /\ UNCHANGED not_call

Call_stoch_rsi_k ==
    /\ Returns("stoch_rsi_k",
               stoch_rsi_k(ClosesOf(call.rows), call.period, call.period, 3))
    /\ UNCHANGED not_call

Call_ultimate_osc ==
    /\ Returns("ultimate_osc",
               ultimate_osc(HighsOf(call.rows), LowsOf(call.rows),
                            ClosesOf(call.rows), call.period, 2 * call.period,
                            4 * call.period))
    /\ UNCHANGED not_call

Call_macd_hist ==
    /\ Returns("macd_hist", macd_hist(ClosesOf(call.rows)))
    /\ UNCHANGED not_call

Call_macd_calc ==
    /\ Returns("macd_calc", macd_calc(ClosesOf(call.rows), 12, 26, 9))
    /\ UNCHANGED not_call

NextIndicators ==
    \/ Call_sma
    \/ Call_ema
    \/ Call_wma
    \/ Call_hma
    \/ Call_vwma
    \/ Call_stddev
    \/ Call_rsi
    \/ Call_stoch_k
    \/ Call_cci
    \/ Call_williams_r
    \/ Call_adx_di
    \/ Call_ao_value
    \/ Call_stoch_rsi_k
    \/ Call_ultimate_osc
    \/ Call_macd_hist
    \/ Call_macd_calc

SpecIndicators == IndicatorsInit /\ [][NextIndicators]_vars

(***************************************************************************)
(* The pivot levels in floating point.  A float is a whole number of units *)
(* of 2^-FracBits that has at most MantissaBits significant bits; the      *)
(* result of every operation is rounded to the nearest float, ties to the  *)
(* even mantissa, as the binary64 operations of Python are.                *)
(***************************************************************************)
MantissaBits == 5

FracBits == 5

MaxPrice == 8

RECURSIVE Pow2(_)
Pow2(n) == IF n = 0 THEN 1 ELSE 2 * Pow2(n - 1)

RECURSIVE BitLen(_)
BitLen(x) == IF x = 0 THEN 0 ELSE 1 + BitLen(x \div 2)

\* one in units
FUnit == Pow2(FracBits)

\* the float nearest to num / den units (den > 0)
RoundQ(num, den) ==
    LET a    == Abs(num)
        e    == Max2(0, BitLen(a \div den) - MantissaBits)
        step == den * Pow2(e)
        m    == a \div step
        r    == a - m * step
        up   == IF 2 * r > step THEN m + 1
                ELSE IF 2 * r < step THEN m
                ELSE m + (m % 2)
    IN  (IF num < 0 THEN -1 ELSE 1) * up * Pow2(e)

\* the float of a literal num / den
FLit(num, den) == RoundQ(num * FUnit, den)

FAdd(x, y) == RoundQ(x + y, 1)

FSub(x, y) == RoundQ(x - y, 1)

FMul(x, y) == RoundQ(x * y, FUnit)

\* y > 0
FDiv(x, y) == RoundQ(x * FUnit, y)

\* if current > r1 ... elif current < s1 ... else
PivotZone(cur, r1, s1) ==
    IF cur > r1 THEN "above R1"
    ELSE IF cur < s1 THEN "below S1"
    ELSE "between"

\* << R1, S1 >> as the TA summary computes them
SummaryLevels(kind, p_open, p_high, p_low, p_close) ==
    LET tr_pp  == FDiv(FAdd(FAdd(p_high, p_low), p_close), FLit(3, 1))
        range_ == FSub(p_high, p_low)
        wo_pp  == FDiv(FAdd(FAdd(p_high, p_low), FMul(FLit(2, 1), p_open)),
                       FLit(4, 1))
        cam    == FDiv(FMul(range_, FLit(11, 10)), FLit(12, 1))
    IN  CASE kind = "traditional" ->
               << FSub(FAdd(tr_pp, tr_pp), p_low),
                  FSub(tr_pp, FSub(p_high, tr_pp)) >>
          [] kind = "fibonacci" ->
               << FAdd(tr_pp, FMul(range_, FLit(382, 1000))),
                  FSub(tr_pp, FMul(range_, FLit(382, 1000))) >>
          [] kind = "woodie" ->
               << FSub(FAdd(wo_pp, wo_pp), p_low),
                  FSub(wo_pp, FSub(p_high, wo_pp)) >>
          [] kind = "camarilla" ->
               << FAdd(p_close, cam), FSub(p_close, cam) >>

\* a variant of get_pivot_points whose Woodie pivot weighs the close
ToolLevelsWoodieFromClose(pivot_type, popen, phigh, plow, pclose) ==
    LET pp3 == FDiv(FAdd(FAdd(phigh, plow), pclose), FLit(3, 1))
        pp4 == FDiv(FAdd(FAdd(phigh, plow), FMul(FLit(2, 1), pclose)),
                    FLit(4, 1))
        rng == FSub(phigh, plow)
        cam == FDiv(FMul(rng, FLit(11, 10)), FLit(12, 1))
    IN  CASE pivot_type = "traditional" ->
               << FSub(FMul(FLit(2, 1), pp3), plow),
                  FSub(FMul(FLit(2, 1), pp3), phigh) >>
          [] pivot_type = "fibonacci" ->
               << FAdd(pp3, FMul(rng, FLit(382, 1000))),
                  FSub(pp3, FMul(rng, FLit(382, 1000))) >>
          [] pivot_type = "woodie" ->
               << FSub(FMul(FLit(2, 1), pp4), plow),
                  FSub(FMul(FLit(2, 1), pp4), phigh) >>
          [] pivot_type = "camarilla" ->
               << FAdd(pclose, cam), FSub(pclose, cam) >>

\* << R1, S1 >> as get_pivot_points computes them
ToolLevels(pivot_type, popen, phigh, plow, pclose) ==
    LET pp3 == FDiv(FAdd(FAdd(phigh, plow), pclose), FLit(3, 1))
        pp4 == FDiv(FAdd(FAdd(phigh, plow), FMul(FLit(2, 1), popen)),
                    FLit(4, 1))
        rng == FSub(phigh, plow)
        cam == FDiv(FMul(rng, FLit(11, 10)), FLit(12, 1))
    IN  CASE pivot_type = "traditional" ->
               << FSub(FMul(FLit(2, 1), pp3), plow),
                  FSub(FMul(FLit(2, 1), pp3), phigh) >>
          [] pivot_type = "fibonacci" ->
               << FAdd(pp3, FMul(rng, FLit(382, 1000))),
                  FSub(pp3, FMul(rng, FLit(382, 1000))) >>
          [] pivot_type = "woodie" ->
               << FSub(FMul(FLit(2, 1), pp4), plow),
                  FSub(FMul(FLit(2, 1), pp4), phigh) >>
          [] pivot_type = "camarilla" ->
               << FAdd(pclose, cam), FSub(pclose, cam) >>

\* the bars with high >= max(open, close) >= min(open, close) >= low > 0
ValidBars ==
    { b \in [open : 1 .. MaxPrice, high : 1 .. MaxPrice,
             low : 1 .. MaxPrice, close : 1 .. MaxPrice] :
        /\ b.low <= b.open /\ b.open <= b.high
        /\ b.low <= b.close /\ b.close <= b.high }

\* the pivot types asked for: the four formulas and one that is not known
PivotTypes == {PivotKinds[i] : i \in 1 .. Len(PivotKinds)} \cup {"demark"}

\* what get_pivot_points returns for a pivot type it does not know
UnknownPivotType == [error |-> "unknown pivot type"]

\* nothing has been computed yet from the prior bar and the current price
PivotsInit ==
    /\ NotRunning
    /\ call = NoCall
    /\ NoAlertTools
    /\ retry = NoRetry
    /\ \E b \in ValidBars, cur \in 1 .. MaxPrice, k \in PivotTypes :
          piv = [prev |-> b, current |-> cur, pivot_type |-> k,
                 summary |-> None, tool |-> None]

\* the block of the TA summary for the formula piv.pivot_type: its R1, S1
\* and the zone it counts
SummaryPivot ==
    /\ piv # NoPivots
    /\ piv.summary = None
    /\ piv.pivot_type \in {PivotKinds[i] : i \in 1 .. Len(PivotKinds)}
    /\ LET b  == piv.prev
           lv == SummaryLevels(piv.pivot_type, b.open * FUnit, b.high * FUnit,
                               b.low * FUnit, b.close * FUnit)
       IN  piv' = [piv EXCEPT !.summary =
                      Some([r1 |-> lv[1], s1 |-> lv[2],
                            zone |-> PivotZone(piv.current * FUnit, lv[1], lv[2])])]
    /\ UNCHANGED << ta_vars, call, alert_vars, retry >>

\* get_pivot_points(coin, timeframe, pivot_type) on the same two bars
GetPivotPoints ==
    /\ piv # NoPivots
    /\ piv.tool = None
    /\ LET b == piv.prev
       IN  IF piv.pivot_type \in {PivotKinds[i] : i \in 1 .. Len(PivotKinds)}
           THEN LET lv == ToolLevels(piv.pivot_type, b.open * FUnit, b.high * FUnit,
                                     b.low * FUnit, b.close * FUnit)
                IN  piv' = [piv EXCEPT !.tool =
                               Some([r1 |-> lv[1], s1 |-> lv[2],
                                     zone |-> PivotZone(piv.current * FUnit,
                                                        lv[1], lv[2])])]
           ELSE piv' = [piv EXCEPT !.tool = Some(UnknownPivotType)]
    /\ UNCHANGED << ta_vars, call, alert_vars, retry >>

NextPivots ==
    \/ SummaryPivot
    \/ GetPivotPoints

SpecPivots == PivotsInit /\ [][NextPivots]_vars

(***************************************************************************)
(* The price alerts.  The alerts file holds a dictionary from alert ids to  *)
(* alerts; every tool reads the whole file, works on its own copy and       *)
(* writes the whole file back.  An alert id ends in the time of its         *)
(* creation, so each set_price_alert makes an id that was not used before.  *)
(***************************************************************************)
MaxAlerts == 2

\* the alerts a single caller sets
MaxSets == 1

MaxChecks == 3

TargetPrice == 2

MaxTicker == 3

Coins == {"BTC", "ETH"}

VALID_ALERT_CONDITIONS == {"above", "below", "crosses_above", "crosses_below"}

AlertIds == 1 .. MaxAlerts

\* an alerts dictionary without alerts
NoAlerts == [i \in AlertIds |-> None]

\* the ids in an alerts dictionary
IdsIn(alerts) == {i \in AlertIds : alerts[i] # None}

\* what fetch_ticker and ticker_data.get('last') give: an error, or a
\* ticker whose last price is None or a price
Tickers ==
    {[error |-> TRUE, last |-> None]}
      \cup {[error |-> FALSE, last |-> x] :
                x \in {None} \cup {Some(q) : q \in 1 .. MaxTicker}}

NoData ==
    [coin |-> "", condition |-> "", price |-> 0, triggered |-> FALSE,
     last_check_price |-> None]

Idle ==
    [op |-> "idle", alerts |-> NoAlerts, id |-> 0, data |-> NoData,
     coin |-> "", ret |-> [kind |-> "none", ids |-> {}]]

\* the call of caller p returns
ReturnOf(p, kind, ids) ==
    procs' = [procs EXCEPT ![p] = [Idle EXCEPT !.ret = [kind |-> kind, ids |-> ids]]]

\* _load_alerts: the dictionary in the file
load_alerts == store

\* {aid: data for aid, data in alerts.items()
\*    if not coin_filter or data['coin'] == coin_filter}
Filtered(alerts, coin_filter) ==
    {i \in IdsIn(alerts) : coin_filter = "" \/ Val(alerts[i]).coin = coin_filter}

\* set_price_alert up to  alerts = _load_alerts()  and the making of the id;
\* most is the number of alerts the model lets the callers make
SetPriceAlert_load(p, coins, conditions, prices, most) ==
    /\ procs[p].op = "idle"
    /\ \E coin \in coins, condition \in conditions, price \in prices :
          IF condition \notin VALID_ALERT_CONDITIONS
          THEN /\ ReturnOf(p, "invalid condition", {})
               /\ UNCHANGED stamp
          ELSE IF price <= 0
          THEN /\ ReturnOf(p, "price must be greater than 0", {})
               /\ UNCHANGED stamp
          ELSE /\ stamp < most
               /\ stamp' = stamp + 1
               /\ procs' = [procs EXCEPT ![p] =
                     [Idle EXCEPT !.op = "set",
                                  !.alerts = load_alerts,
                                  !.id = stamp + 1,
                                  !.data = [coin |-> coin, condition |-> condition,
                                            price |-> price, triggered |-> FALSE,
                                            last_check_price |-> None]]]
    /\ UNCHANGED << store, checks, reports, created, removed >>

\* alerts[alert_id] = alert_data; _save_alerts(alerts); return
SetPriceAlert_save(p) ==
    /\ procs[p].op = "set"
    /\ store' = [procs[p].alerts EXCEPT ![procs[p].id] = Some(procs[p].data)]
    /\ created' = created \cup {procs[p].id}
    /\ ReturnOf(p, "created", {procs[p].id})
    /\ UNCHANGED << stamp, checks, reports, removed >>

\* list_alerts: reads the file and lists the alerts of the coin
ListAlerts(p, coin_filters) ==
    /\ procs[p].op = "idle"
    /\ \E coin_filter \in coin_filters :
          LET alerts == load_alerts
          IN  IF IdsIn(alerts) = {} THEN ReturnOf(p, "no active alerts", {})
              ELSE IF Filtered(alerts, coin_filter) = {}
              THEN ReturnOf(p, "no active alerts for the coin", {})
              ELSE ReturnOf(p, "listed", Filtered(alerts, coin_filter))
    /\ UNCHANGED << store, stamp, checks, reports, created, removed >>

\* remove_alert up to  alerts = _load_alerts()  and the test of the id
RemoveAlert_load(p) ==
    /\ procs[p].op = "idle"
    /\ \E alert_id \in AlertIds :
          LET alerts == load_alerts
          IN  IF alert_id \notin IdsIn(alerts)
              THEN ReturnOf(p, "not found", {alert_id})
              ELSE procs' = [procs EXCEPT ![p] =
                     [Idle EXCEPT !.op = "remove", !.alerts = alerts, !.id = alert_id]]
    /\ UNCHANGED << store, stamp, checks, reports, created, removed >>

\* alerts.pop(alert_id); _save_alerts(alerts); return
RemoveAlert_save(p) ==
    /\ procs[p].op = "remove"
    /\ store' = [procs[p].alerts EXCEPT ![procs[p].id] = None]
    /\ removed' = removed \cup {procs[p].id}
    /\ ReturnOf(p, "removed", {procs[p].id})
    /\ UNCHANGED << stamp, checks, reports, created >>

\* check_alerts up to the filtering of the loaded alerts
CheckAlerts_load(p, coin_filters) ==
    /\ procs[p].op = "idle"
    /\ checks < MaxChecks
    /\ checks' = checks + 1
    /\ \E coin_filter \in coin_filters :
          LET alerts == load_alerts
          IN  IF IdsIn(alerts) = {} THEN ReturnOf(p, "no active alerts to check", {})
              ELSE IF Filtered(alerts, coin_filter) = {}
              THEN ReturnOf(p, "no alerts to check for the coin", {})
              ELSE procs' = [procs EXCEPT ![p] =
                     [Idle EXCEPT !.op = "check", !.alerts = alerts,
                                  !.coin = coin_filter]]
    /\ UNCHANGED << store, stamp, reports, created, removed >>

\* prev_price and ...: None and 0 are both false
Truthy(prev_price) == prev_price # None /\ Val(prev_price) # 0

\* a variant of the loop body that puts an alert into the triggered list
\* whenever its condition is met
CheckOneReportsAgain(data, ticker) ==
    IF ticker.error \/ ticker.last = None
    THEN [data |-> data, fired |-> FALSE]
    ELSE LET current_price == Val(ticker.last)
             prev_price    == data.last_check_price
             target        == data.price
             is_triggered  ==
                 \/ data.condition = "above" /\ current_price > target
                 \/ data.condition = "below" /\ current_price < target
                 \/ /\ data.condition = "crosses_above"
                    /\ Truthy(prev_price)
                    /\ Val(prev_price) <= target
                    /\ target < current_price
                 \/ /\ data.condition = "crosses_below"
                    /\ Truthy(prev_price)
                    /\ Val(prev_price) >= target
                    /\ target > current_price
         IN  [data  |-> [data EXCEPT !.last_check_price = Some(current_price),
                                     !.triggered = IF is_triggered THEN TRUE ELSE @],
              fired |-> is_triggered]

\* the body of the loop of check_alerts for one alert and the ticker
\* fetched for it: the alert afterwards, and whether it goes into the
\* triggered list
CheckOne(data, ticker) ==
    IF ticker.error \/ ticker.last = None
    THEN [data |-> data, fired |-> FALSE]
    ELSE LET current_price == Val(ticker.last)
             prev_price    == data.last_check_price
             target        == data.price
             is_triggered  ==
                 \/ data.condition = "above" /\ current_price > target
                 \/ data.condition = "below" /\ current_price < target
                 \/ /\ data.condition = "crosses_above"
                    /\ Truthy(prev_price)
                    /\ Val(prev_price) <= target
                    /\ target < current_price
                 \/ /\ data.condition = "crosses_below"
                    /\ Truthy(prev_price)
                    /\ Val(prev_price) >= target
                    /\ target > current_price
             fired         == is_triggered /\ ~data.triggered
         IN  [data  |-> [data EXCEPT !.last_check_price = Some(current_price),
                                     !.triggered = IF fired THEN TRUE ELSE @],
              fired |-> fired]

\* the loop over the filtered alerts, each with the ticker fetched for it,
\* then  alerts.update(filtered_alerts); _save_alerts(alerts); return
CheckAlerts_save(p) ==
    /\ procs[p].op = "check"
    /\ LET alerts   == procs[p].alerts
           filtered == Filtered(alerts, procs[p].coin)
       IN  \E ticker \in [filtered -> Tickers] :
              LET after(i) == CheckOne(Val(alerts[i]), ticker[i])
                  triggered == {i \in filtered : after(i).fired}
              IN  /\ store' = [i \in AlertIds |->
                                 IF i \in filtered THEN Some(after(i).data)
                                 ELSE alerts[i]]
                  /\ reports' = [i \in AlertIds |->
                                   IF i \in triggered THEN reports[i] + 1
                                   ELSE reports[i]]
                  /\ ReturnOf(p, "checked", triggered)
    /\ UNCHANGED << stamp, checks, created, removed >>

\* the alerts file does not exist yet and the callers are idle
AlertsInit(callers) ==
    /\ NotRunning
    /\ call = NoCall
    /\ piv = NoPivots
    /\ retry = NoRetry
    /\ store = NoAlerts
    /\ procs = [p \in callers |-> Idle]
    /\ stamp = 0
    /\ checks = 0
    /\ reports = [i \in AlertIds |-> 0]
    /\ created = {}
    /\ removed = {}

\* the state that the alert tools do not touch
not_alerts == << ta_vars, call, piv, retry >>

\* one caller: set_price_alert, check_alerts and list_alerts one after another
OneCaller == {1}

AlertsInitOne == AlertsInit(OneCaller)

set_price_alert_begins ==
    /\ SetPriceAlert_load(1, Coins, VALID_ALERT_CONDITIONS \cup {"at"},
                          {0, TargetPrice}, MaxSets)
    /\ UNCHANGED not_alerts

set_price_alert_returns ==
    /\ SetPriceAlert_save(1)
    /\ UNCHANGED not_alerts

check_alerts_begins ==
    /\ CheckAlerts_load(1, Coins \cup {""})
    /\ UNCHANGED not_alerts

check_alerts_returns ==
    /\ CheckAlerts_save(1)
    /\ UNCHANGED not_alerts

list_alerts ==
    /\ ListAlerts(1, Coins \cup {""})
    /\ UNCHANGED not_alerts

NextAlerts ==
    \/ set_price_alert_begins
    \/ set_price_alert_returns
    \/ check_alerts_begins
    \/ check_alerts_returns
    \/ list_alerts

SpecAlerts == AlertsInitOne /\ [][NextAlerts]_vars

\* two callers at once on the same alerts file: set_price_alert,
\* remove_alert and check_alerts of one coin, interleaved at the reads
\* and the writes of the file
TwoCallers == {1, 2}

OneCoin == {"BTC"}

AlertsInitTwo == AlertsInit(TwoCallers)

set_price_alert_loads ==
    /\ \E p \in TwoCallers :
          SetPriceAlert_load(p, OneCoin, {"above"}, {TargetPrice}, MaxAlerts)
    /\ UNCHANGED not_alerts

set_price_alert_saves ==
    /\ \E p \in TwoCallers : SetPriceAlert_save(p)
    /\ UNCHANGED not_alerts

remove_alert_loads ==
    /\ \E p \in TwoCallers : RemoveAlert_load(p)
    /\ UNCHANGED not_alerts

remove_alert_saves ==
    /\ \E p \in TwoCallers : RemoveAlert_save(p)
    /\ UNCHANGED not_alerts

check_alerts_loads ==
    /\ \E p \in TwoCallers : CheckAlerts_load(p, {""})
    /\ UNCHANGED not_alerts

check_alerts_saves ==
    /\ \E p \in TwoCallers : CheckAlerts_save(p)
    /\ UNCHANGED not_alerts

NextAlertsTwo ==
    \/ set_price_alert_loads
    \/ set_price_alert_saves
    \/ remove_alert_loads
    \/ remove_alert_saves
    \/ check_alerts_loads
    \/ check_alerts_saves

SpecAlertsTwo == AlertsInitTwo /\ [][NextAlertsTwo]_vars

(***************************************************************************)
(* retry_on_error(func, max_retries, delay): the loop over the attempts.   *)
(* A call of func returns a result or raises; ccxt.ExchangeNotAvailable is *)
(* a ccxt.NetworkError, and both are ccxt.BaseError as ccxt.ExchangeError  *)
(* is.                                                                     *)
(***************************************************************************)
MaxRetries == 4

MaxDelay == 2

\* what a call of func can do
Outcomes == {"result", "NetworkError", "ExchangeNotAvailable", "ExchangeError"}

\* a variant of the first except clause that catches every exchange error
CaughtForRetryAnyError(e) ==
    e \in {"NetworkError", "ExchangeNotAvailable", "ExchangeError"}

\* except (ccxt.NetworkError, ccxt.ExchangeNotAvailable)
CaughtForRetry(e) == e \in {"NetworkError", "ExchangeNotAvailable"}

\* the state that retry_on_error does not touch
not_retry == << ta_vars, call, piv, alert_vars >>

\* retry_on_error is called; nothing of it has run yet
RetryInit ==
    /\ NotRunning
    /\ call = NoCall
    /\ piv = NoPivots
    /\ NoAlertTools
    /\ \E m \in 0 .. MaxRetries, d \in 1 .. MaxDelay :
          retry = [pc |-> "for", max_retries |-> m, delay |-> d, attempt |-> 0,
                   log |-> << >>, slept |-> 0, returned |-> None, raised |-> None]

\* for attempt in range(max_retries): try: return func(), with the two
\* except clauses
Retry_attempt ==
    /\ retry # NoRetry
    /\ retry.pc = "for"
    /\ retry.attempt < retry.max_retries
    /\ \E o \in Outcomes :
          LET logged == [retry EXCEPT !.log = Append(@, o)]
          IN  IF o = "result"
              THEN retry' = [logged EXCEPT !.pc = "returned", !.returned = Some(o)]
              ELSE IF CaughtForRetry(o)
              THEN IF retry.attempt = retry.max_retries - 1
                   THEN retry' = [logged EXCEPT !.pc = "raised", !.raised = Some(o)]
                   ELSE retry' = [logged EXCEPT !.pc = "sleep"]
              ELSE retry' = [logged EXCEPT !.pc = "raised", !.raised = Some(o)]
    /\ UNCHANGED not_retry

\* time.sleep(delay * (2 ** attempt)), and on to the next attempt
Retry_sleep ==
    /\ retry # NoRetry
    /\ retry.pc = "sleep"
    /\ retry' = [retry EXCEPT !.slept = @ + retry.delay * Pow2(retry.attempt),
                              !.attempt = @ + 1,
                              !.pc = "for"]
    /\ UNCHANGED not_retry

\* the loop is over without a return: return None
Retry_return_none ==
    /\ retry # NoRetry
    /\ retry.pc = "for"
    /\ retry.attempt >= retry.max_retries
    /\ retry' = [retry EXCEPT !.pc = "returned", !.returned = Some("None")]
    /\ UNCHANGED not_retry

NextRetry ==
    \/ Retry_attempt
    \/ Retry_sleep
    \/ Retry_return_none

SpecRetry == RetryInit /\ [][NextRetry]_vars

(***************************************************************************)
(* The decision alone, on every combination of tallies the counters of a   *)
(* scored series admit: get_ta_summary from the Totals block on.           *)
(***************************************************************************)
\* the averages that every series of 50 bars has: the 11 of period 50 or
\* less other than VWMA(20), which is absent when the volume is zero
MinMaCounted == 11

MaListed == Len(MaValues(<< >>, << >>, << >>, << >>))

VerdictInit ==
    /\ pc = "totals"
    /\ ohlcv = << >>
    /\ result = "none"
    /\ ind = NoIndicators
    /\ osc_buy \in 0 .. TotalOsc
    /\ osc_sell \in 0 .. TotalOsc - osc_buy
    /\ osc_buy + osc_sell >= 1
    /\ total_osc = TotalOsc
    /\ total_ma \in MinMaCounted .. MaListed
    /\ ma_possible = total_ma
    /\ ma_buy \in 0 .. total_ma
    /\ ma_sell = total_ma - ma_buy
    /\ total_pivot = Len(PivotKinds)
    /\ pivot_possible = total_pivot
    /\ pivot_buy \in 0 .. total_pivot
    /\ pivot_sell \in 0 .. total_pivot - pivot_buy
    /\ total = 0 /\ osc_neutral = 0 /\ ma_neutral = 0 /\ pivot_neutral = 0
    /\ total_buy = 0 /\ total_sell = 0 /\ total_neutral = 0
    /\ buy_pct = NoPct /\ sell_pct = NoPct /\ neutral_pct = NoPct
    /\ overall = "none"
    /\ ts = Unset
    /\ now = 0
    /\ other = NotCalled
    /\ call = NoCall
    /\ piv = NoPivots
    /\ NoAlertTools
    /\ retry = NoRetry

NextVerdict ==
    \/ Totals
    \/ Overall
    \/ Report

SpecVerdict == VerdictInit /\ [][NextVerdict]_vars

(***************************************************************************)
(* Properties                                                              *)
(***************************************************************************)
Verdicts == {"STRONG BUY", "BUY", "STRONG SELL", "SELL", "NEUTRAL"}

\* the call returned the report
Scored == pc = "done" /\ result = "report"

\* rows were fetched and the length check has been passed or failed
Checked == pc \notin {"fetch", "check"} /\ result # "error_ohlcv"

NothingComputed ==
    /\ ind = NoIndicators
    /\ osc_tally = << 0, 0, 0 >>
    /\ ma_tally = << 0, 0, 0, 0 >>
    /\ pivot_tally = << 0, 0, 0, 0 >>
    /\ total = 0 /\ total_buy = 0 /\ total_sell = 0 /\ total_neutral = 0
    /\ overall = "none"

\* C1: get_ta_summary refuses exactly the series of fewer than 50 bars (49
\* included): it then returns the insufficient-data result with no indicator,
\* tally or verdict computed; a series of 50 bars or more is never refused
\* and its call ends with the report and a verdict.
C1_RefusesExactlyBelow50 ==
    /\ Checked => (result = "not_enough_data" <=> Len(ohlcv) < 50)
    /\ result = "not_enough_data" => pc = "done" /\ NothingComputed
    /\ (Checked /\ pc = "done" /\ Len(ohlcv) >= 50)
          => result = "report" /\ overall \in Verdicts

C1_Witness ==
    /\ pc = "done"
    /\ result = "not_enough_data"
    /\ Len(ohlcv) = 49
    /\ NothingComputed

\* C2: once the totals are computed, total_buy + total_sell + total_neutral
\* equals total exactly and no family's neutral count is negative.
C2_TotalsAddUp ==
    pc \in {"overall", "report"} \/ Scored =>
        /\ total_buy + total_sell + total_neutral = total
        /\ osc_neutral >= 0
        /\ ma_neutral >= 0
        /\ pivot_neutral >= 0

C2_Witness ==
    /\ Scored
    /\ total_buy > 0 /\ total_sell > 0 /\ total_neutral > 0
    /\ total_buy + total_sell + total_neutral = total

\* the conditions of the decision, on the counts of the final state
C3_BuyAbove(k) == 100 * total_buy > k * total

C3_SellAbove(k) == 100 * total_sell > k * total

C3_BuyFamilies ==
    osc_buy > osc_sell /\ ma_buy > ma_sell /\ pivot_buy >= pivot_sell

C3_SellFamilies ==
    osc_sell > osc_buy /\ ma_sell > ma_buy /\ pivot_sell >= pivot_buy

\* C3: the overall signal is the first match of STRONG BUY (buy_pct > 60 and
\* the three buy family conditions), BUY (buy_pct > 50), STRONG SELL
\* (sell_pct > 60 and the three sell family conditions), SELL (sell_pct > 50),
\* NEUTRAL; buy_pct > 60 with a family condition failing is BUY, and buy_pct
\* of exactly 50 is not BUY.
C3_FirstMatchOrder ==
    pc = "report" \/ Scored =>
        /\ overall = "STRONG BUY" <=> C3_BuyAbove(60) /\ C3_BuyFamilies
        /\ overall = "BUY" <=>
              C3_BuyAbove(50) /\ ~(C3_BuyAbove(60) /\ C3_BuyFamilies)
        /\ overall = "STRONG SELL" <=>
              ~C3_BuyAbove(50) /\ C3_SellAbove(60) /\ C3_SellFamilies
        /\ overall = "SELL" <=>
              /\ ~C3_BuyAbove(50)
              /\ C3_SellAbove(50)
              /\ ~(C3_SellAbove(60) /\ C3_SellFamilies)
        /\ overall = "NEUTRAL" <=> ~C3_BuyAbove(50) /\ ~C3_SellAbove(50)
        /\ C3_BuyAbove(60) /\ ~C3_BuyFamilies => overall = "BUY"
        /\ 100 * total_buy = 50 * total => overall \notin {"BUY", "STRONG BUY"}

\* more than 60 percent buys, the averages not in favour: BUY
C3_Witness ==
    /\ Scored
    /\ C3_BuyAbove(60)
    /\ ma_buy <= ma_sell
    /\ overall = "BUY"

\* the positions of a call that has not returned; each has one step, whose
\* only guard is the position
Running ==
    { "fetch", "check", "rsi", "stoch", "cci", "adx", "ao", "mom", "macd",
      "stoch_rsi", "williams", "bull_bear", "uo", "ma", "pivots", "totals",
      "overall", "report" }

\* C4: a call on 50 bars or more never raises at the unguarded comparisons
\* of RSI and Stochastic %K (both are present whenever they are compared),
\* it is at a position with a step to take until it returns, and it returns
\* the report with exactly one of the five overall signals, whichever other
\* indicators are absent.
C4_CompletesWithOneVerdict ==
    /\ result # "type_error"
    /\ Checked /\ Len(ohlcv) >= 50 =>
          /\ pc # "rsi" => ~IsNone(ind.rsi)
          /\ pc \notin {"rsi", "stoch"} => ~IsNone(ind.stoch)
          /\ pc \in Running \/ (Scored /\ overall \in Verdicts)

\* 50 flat bars: CCI and ADX are absent and the call still ends with a verdict
C4_Witness ==
    /\ Scored
    /\ Len(ohlcv) = 50
    /\ IsNone(ind.cci_val)
    /\ IsNone(ind.adx_val)
    /\ overall \in Verdicts

\* the positions after the moving-average block
AfterMa == pc \in {"pivots", "totals", "overall", "report"} \/ Scored

\* C5: of the 17 listed averages, ma_buy counts those present with
\* current > value, ma_sell those present with current <= value (equality is
\* Sell), total_ma those present, each once; an absent average is in neither.
\* Hence ma_buy + ma_sell = total_ma <= 17 and ma_neutral = 0.
C5_MaFamilyCounts ==
    /\ AfterMa => ma_buy + ma_sell = total_ma /\ total_ma <= 17
    /\ pc \in {"overall", "report"} \/ Scored => ma_neutral = 0
    /\ pc = "pivots" =>
          LET vals    == MaValues(highs, lows, closes, volumes)
              present == {i \in 1 .. 17 : ~IsNone(vals[i])}
          IN  /\ Len(vals) = 17
              /\ total_ma = Cardinality(present)
              /\ ma_buy = Cardinality({i \in present : current > Val(vals[i])})
              /\ ma_sell = Cardinality({i \in present : current <= Val(vals[i])})

\* a series with an average equal to the price, counted as Sell, and with an
\* absent average, not counted
C5_Witness ==
    /\ pc = "pivots"
    /\ ma_sell > 0
    /\ total_ma < 17
    /\ LET vals == MaValues(highs, lows, closes, volumes)
       IN  /\ \E i \in 1 .. 17 : vals[i] = Some(current)
           /\ \E i \in 1 .. 17 : IsNone(vals[i])

\* the positions after the totals block
AfterTotals == pc \in {"overall", "report"} \/ Scored

\* the oscillators whose helper returned None (ADX/DI return None together;
\* Momentum is never None)
AbsentOsc ==
    Cardinality({f \in {"rsi", "stoch", "cci_val", "adx_val", "ao", "hist_pair",
                         "sr_k", "wr", "bb_sma30", "uo"} : IsNone(ind[f])})

\* the listed averages whose helper returned None
AbsentMa ==
    LET vals == MaValues(highs, lows, closes, volumes)
    IN  Cardinality({i \in 1 .. 17 : IsNone(vals[i])})

C7_IsPctOf(pct, count, tot) == pct.num * tot = 100 * count * pct.den

Flat200 ==
    /\ Len(ohlcv) = 200
    /\ \A i \in 1 .. 200 : ohlcv[i] = ohlcv[1]

\* C8 (as stated): on a flat series of 200 bars the call does not raise, the
\* zero-over-zero indicators add nothing to the buy and sell tallies (RSI, the
\* first ratio scored, leaves both at 0) and the overall signal is NEUTRAL.
C8_FlatIsNeutral ==
    Flat200 =>
        /\ result # "type_error"
        /\ pc = "stoch" => osc_buy = 0 /\ osc_sell = 0
        /\ Scored => overall = "NEUTRAL"

\* 200 bars whose closes rise by the same positive step
RisingByStep200 ==
    /\ Len(ohlcv) = 200
    /\ ohlcv[2].close > ohlcv[1].close
    /\ \A i \in 2 .. 200 :
          ohlcv[i].close - ohlcv[i - 1].close = ohlcv[2].close - ohlcv[1].close

\* the place of the Ichimoku baseline among the 17 values of MaValues
IchimokuAt == 15

C10_MomentumIsBinary ==
    [][pc = "mom" /\ Len(ohlcv) >= 11 =>
          LET n == Len(ohlcv)
              d == ohlcv[n].close - ohlcv[n - 10].close
          IN  /\ d > 0 => osc_buy' = osc_buy + 1 /\ osc_sell' = osc_sell
              /\ d <= 0 => osc_sell' = osc_sell + 1 /\ osc_buy' = osc_buy
              /\ osc_buy' + osc_sell' = osc_buy + osc_sell + 1]_vars

\* the Momentum step has been taken on a difference of exactly zero
C10_Witness ==
    /\ pc = "macd"
    /\ Len(ohlcv) >= 11
    /\ ohlcv[Len(ohlcv)].close = ohlcv[Len(ohlcv) - 10].close
    /\ ind.mom = Some(0)
    /\ osc_sell >= 1

\* the suspended call has returned a report as well
OtherScored == other.pc = "done" /\ other.result = "report"

\* what the report of a call shows: the time in its head line, the indicator
\* values, the counts, the percentages and the overall signal
ReportOf(f) ==
    << f.ts, f.ind, f.osc_buy, f.osc_sell, f.osc_neutral, f.ma_buy, f.ma_sell,
       f.ma_neutral, f.pivot_buy, f.pivot_sell, f.pivot_neutral, f.total_buy,
       f.total_sell, f.total_neutral, f.total, f.buy_pct, f.sell_pct,
       f.neutral_pct, f.overall >>

\* C11: two calls that scored the same series produced the same report: the
\* same counts, percentages and overall signal, and the same text, whatever
\* the clock showed when each of them ran
C11_SameSeriesSameReport ==
    (Scored /\ OtherScored /\ other.ohlcv = ohlcv) =>
        ReportOf(other) = ReportOf(Locals)

Alone(rows) ==
    IF InsufficientData(rows) THEN << "not_enough_data" >>
    ELSE
    LET h   == [i \in 1 .. Len(rows) |-> rows[i].high * SCALE]
        l   == [i \in 1 .. Len(rows) |-> rows[i].low * SCALE]
        c   == [i \in 1 .. Len(rows) |-> rows[i].close * SCALE]
        v   == [i \in 1 .. Len(rows) |-> rows[i].volume]
        cur == c[Len(c)]
        r   == rsi_series(c, 14)
        k   == stoch_k(h, l, c, 14, 3)
    IN  IF IsNone(r) \/ IsNone(k) THEN << "type_error" >>
        ELSE
        LET adx  == adx_di(h, l, c, 14)
            sigs == << ThresholdSignal(Val(r), 30, 70),
                       ThresholdSignal(Val(k), 20, 80),
                       GuardedThresholdSignal(cci(c, 20), -100, 100),
                       AdxSignal(adx[1], adx[2], adx[3]),
                       AoSignal(ao_value(h, l)),
                       MomSignal(Momentum(c)),
                       MacdSignal(macd_hist(c)[3]),
                       GuardedThresholdSignal(stoch_rsi_k(c, 14, 14, 3), 20, 80),
                       GuardedThresholdSignal(williams_r(h, l, c, 14), -80, -20),
                       BullBearSignal(BullBear(h, l, c)),
                       GuardedThresholdSignal(ultimate_osc(h, l, c, 7, 14, 28),
                                              30, 70) >>
            ob   == Cardinality({i \in 1 .. Len(sigs) : sigs[i] = "buy"})
            os   == Cardinality({i \in 1 .. Len(sigs) : sigs[i] = "sell"})
            zero == [buy |-> 0, sell |-> 0, possible |-> 0]
            ma   == AddMaSignals(zero, MaValues(h, l, c, v), 1, cur)
            pv   == AddPivots(zero, rows[Len(rows) - 1], 1, cur)
            tot  == TotalOsc + ma.possible + pv.possible
            bp   == Pct(ob + ma.buy + pv.buy, tot)
            sp   == Pct(os + ma.sell + pv.sell, tot)
        IN  << "report", ob, os, ma.buy, ma.sell, pv.buy, pv.sell,
               OverallSignal(bp, sp, ob, os, ma.buy, ma.sell, pv.buy, pv.sell) >>

\* what the call with the locals f returned
Returned(f) ==
    IF f.result = "report"
    THEN << "report", f.osc_buy, f.osc_sell, f.ma_buy, f.ma_sell,
            f.pivot_buy, f.pivot_sell, f.overall >>
    ELSE << f.result >>

Malformed(bar) == bar.high < bar.low

\* C14: a call on 50 bars or more of which one is malformed never returns a
\* report with a verdict, nor the refusal for too few bars
C14_MalformedNeverScored ==
    (/\ pc = "done"
     /\ Len(ohlcv) >= MinBars
     /\ \E i \in 1 .. Len(ohlcv) : Malformed(ohlcv[i])) =>
        result \notin {"report", "not_enough_data"}

\* the steps that score an oscillator
OscSteps ==
    {"rsi", "stoch", "cci", "adx", "ao", "mom", "macd", "stoch_rsi",
     "williams", "bull_bear", "uo"}

\* the step at adds one to osc_buy exactly when x is present and below
\* lower, one to osc_sell exactly when x is present and above upper
C15_ThresholdStep(at, x, lower, upper) ==
    pc = at =>
        /\ osc_buy' - osc_buy =
              (IF ~IsNone(x) /\ Val(x) < lower * SCALE THEN 1 ELSE 0)
        /\ osc_sell' - osc_sell =
              (IF ~IsNone(x) /\ Val(x) > upper * SCALE THEN 1 ELSE 0)

\* C15: RSI (30/70), Stochastic %K (20/80), CCI (-100/100), Stochastic RSI %K
\* (20/80) and the Ultimate Oscillator (30/70) count as Buy exactly when
\* strictly below the lower threshold, as Sell exactly when strictly above
\* the upper one, and as neither on a threshold, between them or when
\* absent; no oscillator step adds to both counters
C15_ThresholdOscillators ==
    [][/\ C15_ThresholdStep("rsi", ind'.rsi, 30, 70)
       /\ C15_ThresholdStep("stoch", ind'.stoch, 20, 80)
       /\ C15_ThresholdStep("cci", ind'.cci_val, -100, 100)
       /\ C15_ThresholdStep("stoch_rsi", ind'.sr_k, 20, 80)
       /\ C15_ThresholdStep("uo", ind'.uo, 30, 70)
       /\ pc \in OscSteps =>
             /\ osc_buy' >= osc_buy
             /\ osc_sell' >= osc_sell
             /\ (osc_buy' - osc_buy) + (osc_sell' - osc_sell) <= 1]_vars

\* a scored series with RSI above 70, Stochastic %K exactly 80, an absent or
\* in-band CCI and a Stochastic RSI below 20
C15_Witness ==
    /\ Scored
    /\ Val(ind.rsi) > 70 * SCALE
    /\ ind.stoch = Some(80 * SCALE)
    /\ Val(ind.sr_k) < 20 * SCALE
    /\ osc_neutral >= 2

\* C16: Williams %R(14) counts as Buy exactly when below -80, as Sell exactly
\* when above -20 and as neither from -80 to -20; when the highest high of
\* the last 14 bars equals the lowest low its value is 0, which is a Sell
C16_WilliamsR ==
    [][pc = "williams" =>
          LET wr == ind'.wr IN
          /\ ~IsNone(wr)
          /\ osc_buy' - osc_buy = (IF Val(wr) < -80 * SCALE THEN 1 ELSE 0)
          /\ osc_sell' - osc_sell = (IF Val(wr) > -20 * SCALE THEN 1 ELSE 0)
          /\ MaxLast(highs, 14) = MinLast(lows, 14) =>
                /\ wr = Some(0)
                /\ osc_sell' = osc_sell + 1
                /\ osc_buy' = osc_buy]_vars

\* a scored series whose last 14 bars have no range: Williams %R is 0
C16_Witness ==
    /\ Scored
    /\ MaxLast(highs, 14) = MinLast(lows, 14)
    /\ ind.wr = Some(0)
    /\ osc_sell >= 1

\* ADX, +DI and -DI are all there and ADX is above 25
C17_Trending(dip, dim, adx) ==
    ~IsNone(dip) /\ ~IsNone(dim) /\ ~IsNone(adx) /\ Val(adx) > 25 * SCALE

\* C17: the ADX/DI step counts a Buy exactly when ADX > 25 and +DI > -DI, a
\* Sell exactly when ADX > 25 and -DI > +DI, and nothing when ADX <= 25 or
\* when ADX/DI is absent, as it is whenever the smoothed true range is 0
C17_AdxDi ==
    [][pc = "adx" =>
          LET dip == ind'.di_plus
              dim == ind'.di_minus
              adx == ind'.adx_val
          IN  /\ osc_buy' - osc_buy =
                    (IF C17_Trending(dip, dim, adx) /\ Val(dip) > Val(dim)
                     THEN 1 ELSE 0)
              /\ osc_sell' - osc_sell =
                    (IF C17_Trending(dip, dim, adx) /\ Val(dim) > Val(dip)
                     THEN 1 ELSE 0)
              /\ rma(true_range(highs, lows, closes), 14) = Some(0) =>
                    /\ IsNone(adx)
                    /\ osc_buy' = osc_buy
                    /\ osc_sell' = osc_sell]_vars

\* a scored series whose ADX is present but not above 25 while +DI and -DI
\* differ: the step counted nothing
C17_Witness ==
    /\ Scored
    /\ ~IsNone(ind.adx_val)
    /\ Val(ind.adx_val) <= 25 * SCALE
    /\ Val(ind.di_plus) # Val(ind.di_minus)
    /\ osc_neutral >= 1

\* C18: at the MACD step both histograms exist, the current one being the
\* MACD line less the signal line at the last bar; the step counts a Buy
\* exactly when the current histogram is strictly greater than the previous
\* one and a Sell in every other case, so it always counts one of the two
C18_MacdSlope ==
    [][pc = "macd" =>
          LET hp == ind'.hist_pair
              r  == macd_hist(closes)
          IN  /\ ~IsNone(hp)
              /\ ~IsNone(hp[2])
              /\ hp[1] = Val(r[1]) - Val(r[2])
              /\ osc_buy' - osc_buy = (IF hp[1] > Val(hp[2]) THEN 1 ELSE 0)
              /\ osc_sell' - osc_sell = (IF hp[1] > Val(hp[2]) THEN 0 ELSE 1)]_vars

\* a scored series whose closes moved and whose last two histograms are equal
C18_Witness ==
    /\ Scored
    /\ ~IsNone(ind.hist_pair)
    /\ ind.hist_pair[1] = Val(ind.hist_pair[2])
    /\ closes[1] # closes[Len(closes)]
    /\ osc_sell >= 1

\* the signals of the nine oscillators scored before Bull/Bear Power, from
\* the values the call keeps
SignalsBeforeBullBear ==
    << ThresholdSignal(Val(ind.rsi), 30, 70),
       ThresholdSignal(Val(ind.stoch), 20, 80),
       GuardedThresholdSignal(ind.cci_val, -100, 100),
       AdxSignal(ind.di_plus, ind.di_minus, ind.adx_val),
       AoSignal(ind.ao),
       MomSignal(Val(ind.mom)),
       MacdSignal(ind.hist_pair),
       GuardedThresholdSignal(ind.sr_k, 20, 80),
       GuardedThresholdSignal(ind.wr, -80, -20) >>

BuysOf(sigs) == Cardinality({i \in 1 .. Len(sigs) : sigs[i] = "buy"})

\* the 30-bar average of bull power plus bear power, bar by bar
BullPlusBear(highs_, lows_, closes_) ==
    LET ema_series == EmaSeries(closes_, 13)
    IN  sma([i \in 1 .. Len(closes_) |->
                (highs_[i] - ema_series[i]) + (lows_[i] - ema_series[i])], 30)

\* C19: once Bull/Bear Power is scored, on 30 bars or more, it has counted a
\* Buy exactly when the 30-bar average of the sum of bull power (high less
\* EMA13) and bear power (low less EMA13) is above 0, and a Sell otherwise
C19_BullPlusBearAverage ==
    (pc = "uo" /\ Len(ohlcv) >= 30) =>
        osc_buy = BuysOf(SignalsBeforeBullBear)
                    + (IF Val(BullPlusBear(highs, lows, closes)) > 0
                       THEN 1 ELSE 0)

\* the pivots have been scored
AfterPivots == pc \in {"totals", "overall", "report"} \/ Scored

\* << R1, S1 >> of formula i on the bar before the last
C20_Levels(i) ==
    LET prev == ohlcv[Len(ohlcv) - 1]
    IN  PivotLevels(PivotKinds[i], prev.open * SCALE, prev.high * SCALE,
                    prev.low * SCALE, prev.close * SCALE)

\* C20: for a scored series of valid bars the pivot family has 4 entries,
\* one for each formula on the bar before the last: a Buy for each formula
\* whose R1 lies below the current price, a Sell for each whose S1 lies above
\* it, and neither for the others, among them those with the price on R1 or S1
C20_Pivots ==
    (AfterPivots /\ ~Malformed(ohlcv[Len(ohlcv) - 1])) =>
        /\ pivot_possible = 4
        /\ total_pivot = 4
        /\ pivot_buy =
              Cardinality({i \in 1 .. 4 : current > C20_Levels(i)[1]})
        /\ pivot_sell =
              Cardinality({i \in 1 .. 4 : current < C20_Levels(i)[2]})
        /\ \A i \in 1 .. 4 : C20_Levels(i)[2] <= C20_Levels(i)[1]

\* a scored series whose price lies on R1 and S1 of a formula: not counted
C20_Witness ==
    /\ Scored
    /\ \E i \in 1 .. 4 :
          current = C20_Levels(i)[1] /\ current = C20_Levels(i)[2]
    /\ pivot_buy + pivot_sell < 4
    /\ pivot_possible = 4

\* an indicator function has been called on its own and has returned
Called(fn) == call # NoCall /\ call.fn = fn

\* the functions with a minimum window that depends on the period alone
WindowedFunctions ==
    {"sma", "ema", "wma", "hma", "vwma", "stddev", "rsi", "stoch_k", "cci",
     "williams_r", "adx_di", "ao_value", "stoch_rsi_k", "ultimate_osc"}

\* the bars fn needs with the period k: n for the averages, Stochastic %K,
\* CCI, Williams %R and stddev, n + 1 for RSI, n + 2 for ADX/DI, 34 for the
\* Awesome Oscillator, rsiLen + stochLen for Stochastic RSI and c + 1 for the
\* Ultimate Oscillator
MinWindow(fn, k) ==
    CASE fn = "rsi" -> k + 1
      [] fn = "adx_di" -> k + 2
      [] fn = "ao_value" -> 34
      [] fn = "stoch_rsi_k" -> k + k
      [] fn = "ultimate_osc" -> 4 * k + 1
      [] OTHER -> k

\* the call returned None (ADX/DI: three of them)
ReturnedAbsent == IF call.fn = "adx_di" THEN call.ret = NoAdx ELSE IsNone(call.ret)

\* with enough bars, the cases in which a function is absent all the same:
\* a zero denominator (CCI, VWMA, ADX/DI) or a period of 1 (stddev, CCI)
AbsentForAnotherReason ==
    LET k == call.period
        c == ClosesOf(call.rows)
    IN  CASE call.fn = "stddev" -> k <= 1
          [] call.fn = "cci" ->
               k <= 1 \/ \A i \in 1 .. k : LastN(c, k)[i] = c[Len(c)]
          [] call.fn = "vwma" -> Sum(LastN(VolumesOf(call.rows), k)) = 0
          [] call.fn = "adx_di" ->
               rma(true_range(HighsOf(call.rows), LowsOf(call.rows), c), k)
                 = Some(0)
          [] OTHER -> FALSE

\* C21: an indicator function called on fewer bars than its minimum window
\* returns absence (and does not fail); called on that many bars or more
\* it returns a value, unless it is absent for a zero denominator or, for
\* stddev and CCI, for a period of 1
C21_AbsentBelowWindow ==
    (call # NoCall /\ call.fn \in WindowedFunctions) =>
        IF Len(call.rows) < MinWindow(call.fn, call.period)
        THEN ReturnedAbsent
        ELSE ReturnedAbsent <=> AbsentForAnotherReason

\* ADX/DI(14) called on 15 bars, one fewer than it needs, returned absence
C21_Witness ==
    /\ Called("adx_di")
    /\ call.period = 14
    /\ Len(call.rows) = 15
    /\ call.ret = NoAdx

\* slow + signal for the 12/26/9 parameters
MacdWindow == 26 + 9

\* the shared helper alone: macd_calc(data, 12, 26, 9) is absent exactly
\* below 35 bars
MacdCalcWindow ==
    Called("macd_calc") => (call.ret = NoAdx <=> Len(call.rows) < MacdWindow)

\* the scorer's copy: macd_hist is absent exactly below 26 bars
MacdHistWindow ==
    Called("macd_hist") => (call.ret = NoAdx <=> Len(call.rows) < 26)

EnoughBars == Len(call.rows) >= MinWindow(call.fn, call.period)

\* C23: an indicator whose denominator is zero returns its fallback and
\* divides nothing: RSI is 100 when the average loss of the window is 0,
\* Stochastic %K and Stochastic RSI %K are 50 and Williams %R is 0 when the
\* range of the window is 0, and CCI, VWMA and ADX/DI are absent when the
\* deviation, the volume of the window, the smoothed true range is 0
C23_ZeroDenominatorFallbacks ==
    LET k == call.period
        h == HighsOf(call.rows)
        l == LowsOf(call.rows)
        c == ClosesOf(call.rows)
    IN  (call # NoCall /\ call.fn \in WindowedFunctions /\ EnoughBars) =>
          /\ (call.fn = "rsi" /\ Sum(LastN(Losses(c), k)) = 0)
                => call.ret = Some(100 * SCALE)
          /\ (call.fn = "stoch_k" /\ MaxLast(h, k) = MinLast(l, k))
                => call.ret = Some(50 * SCALE)
          /\ (call.fn = "stoch_rsi_k"
                /\ MaxLast(RsiVals(c, k), k) = MinLast(RsiVals(c, k), k))
                => call.ret = Some(50 * SCALE)
          /\ (call.fn = "williams_r" /\ MaxLast(h, k) = MinLast(l, k))
                => call.ret = Some(0)
          /\ (call.fn = "cci" /\ stddev(c, k) = Some(0)) => call.ret = None
          /\ (call.fn = "vwma" /\ Sum(LastN(VolumesOf(call.rows), k)) = 0)
                => call.ret = None
          /\ (call.fn = "adx_di" /\ rma(true_range(h, l, c), k) = Some(0))
                => call.ret = NoAdx

\* RSI(14) of a flat series, average gain and average loss both 0, was 100
C23_Witness ==
    /\ Called("rsi")
    /\ call.period = 14
    /\ Len(call.rows) > 14
    /\ Sum(LastN(Gains(ClosesOf(call.rows)), 14)) = 0
    /\ Sum(LastN(Losses(ClosesOf(call.rows)), 14)) = 0
    /\ call.ret = Some(100 * SCALE)

\* the other zero denominators are reached too
C23_EveryFallbackReached(fn) ==
    /\ Called(fn)
    /\ EnoughBars
    /\ CASE fn = "cci" -> stddev(ClosesOf(call.rows), call.period) = Some(0)
         [] fn = "vwma" -> Sum(LastN(VolumesOf(call.rows), call.period)) = 0
         [] fn = "adx_di" ->
              rma(true_range(HighsOf(call.rows), LowsOf(call.rows),
                             ClosesOf(call.rows)), call.period) = Some(0)
         [] fn = "stoch_rsi_k" ->
              MaxLast(RsiVals(ClosesOf(call.rows), call.period), call.period)
                = MinLast(RsiVals(ClosesOf(call.rows), call.period), call.period)
         [] OTHER ->
              MaxLast(HighsOf(call.rows), call.period)
                = MinLast(LowsOf(call.rows), call.period)

SellsOf(sigs) == Cardinality({i \in 1 .. Len(sigs) : sigs[i] = "sell"})

\* the last 30 bars
Last30 == (Len(ohlcv) - 29) .. Len(ohlcv)

\* C24: once Bull/Bear Power is scored on 30 bars or more, the value it
\* compared with 0 is the 30-bar mean of high - low, whatever the closes and
\* their EMA(13); when the last 30 bars all have high >= low it has counted
\* a Sell if they all have high = low and a Buy otherwise
C24_BullBearIsMeanRange ==
    (pc = "uo" /\ Len(ohlcv) >= 30) =>
        /\ ind.bb_sma30
             = sma([i \in 1 .. Len(ohlcv) |-> highs[i] - lows[i]], 30)
        /\ (\A i \in Last30 : ~Malformed(ohlcv[i])) =>
              LET flat == \A i \in Last30 : highs[i] = lows[i]
              IN  /\ osc_buy = BuysOf(SignalsBeforeBullBear)
                                 + (IF flat THEN 0 ELSE 1)
                  /\ osc_sell = SellsOf(SignalsBeforeBullBear)
                                 + (IF flat THEN 1 ELSE 0)

\* a falling series whose bars have a range: the highs and the lows of the
\* last 30 bars lie below the EMA(13) on average, and a Buy was counted
C24_Witness ==
    /\ pc = "uo"
    /\ \A i \in Last30 : highs[i] > lows[i]
    /\ Val(BullPlusBear(highs, lows, closes)) < 0
    /\ Val(ind.bb_sma30) > 0
    /\ osc_buy = BuysOf(SignalsBeforeBullBear) + 1

\* a series of bars without range: a Sell was counted
C24_FlatBarsSell ==
    /\ pc = "uo"
    /\ \A i \in Last30 : highs[i] = lows[i]
    /\ osc_sell = SellsOf(SignalsBeforeBullBear) + 1

\* the summed true range of the last length bars
WindowTr(highs_, lows_, closes_, length) ==
    TrSum(highs_, lows_, closes_, Len(closes_) - length + 1, Len(closes_))

\* the buying-pressure ratio of a window, 0 for a window without true range
WindowRatio(highs_, lows_, closes_, length) ==
    IF WindowTr(highs_, lows_, closes_, length) = 0 THEN 0
    ELSE Ratio(BpSum(lows_, closes_, Len(closes_) - length + 1, Len(closes_)),
               WindowTr(highs_, lows_, closes_, length))

\* the function alone: a window without true range enters the weighted
\* average with the ratio 0 and the oscillator is not absent
UoZeroWindowRatio ==
    LET k == call.period
        h == HighsOf(call.rows)
        l == LowsOf(call.rows)
        c == ClosesOf(call.rows)
    IN  (Called("ultimate_osc") /\ EnoughBars) =>
            call.ret = Some(Div(100 * (4 * WindowRatio(h, l, c, k)
                                        + 2 * WindowRatio(h, l, c, 2 * k)
                                        + WindowRatio(h, l, c, 4 * k)), 7))

\* the function alone on a series whose shortest window has no true range
\* and whose longest window has some
UoMixedWindows ==
    /\ Called("ultimate_osc")
    /\ EnoughBars
    /\ WindowTr(HighsOf(call.rows), LowsOf(call.rows), ClosesOf(call.rows),
                call.period) = 0
    /\ WindowTr(HighsOf(call.rows), LowsOf(call.rows), ClosesOf(call.rows),
                4 * call.period) > 0
    /\ Val(call.ret) > 0

\* the signals of the ten oscillators scored before the Ultimate Oscillator
SignalsBeforeUO ==
    SignalsBeforeBullBear \o << BullBearSignal(ind.bb_sma30) >>

\* C25: once the Ultimate Oscillator (7, 14, 28) is scored it is present, a
\* window whose summed true range is 0 has entered it with the ratio 0, and
\* when all three windows have no true range its value is 0 and a Buy has
\* been counted for it
C25_UoZeroTrueRange ==
    pc = "ma" =>
        /\ ind.uo = Some(Div(100 * (4 * WindowRatio(highs, lows, closes, 7)
                                     + 2 * WindowRatio(highs, lows, closes, 14)
                                     + WindowRatio(highs, lows, closes, 28)), 7))
        /\ (\A w \in {7, 14, 28} : WindowTr(highs, lows, closes, w) = 0) =>
              /\ ind.uo = Some(0)
              /\ osc_buy = BuysOf(SignalsBeforeUO) + 1
              /\ osc_sell = SellsOf(SignalsBeforeUO)

\* a series whose last 29 bars have no true range: value 0, counted Buy
C25_Witness ==
    /\ pc = "ma"
    /\ \A w \in {7, 14, 28} : WindowTr(highs, lows, closes, w) = 0
    /\ ind.uo = Some(0)
    /\ osc_buy = BuysOf(SignalsBeforeUO) + 1

\* the decision with the STRONG SELL rule tried before the BUY rule
StrongSellBeforeBuy(bp, sp, ob, os, mb, ms, pb, ps) ==
    IF PctAbove(bp, 60) /\ ob > os /\ mb > ms /\ pb >= ps THEN "STRONG BUY"
    ELSE IF PctAbove(sp, 60) /\ os > ob /\ ms > mb /\ ps >= pb THEN "STRONG SELL"
    ELSE IF PctAbove(bp, 50) THEN "BUY"
    ELSE IF PctAbove(sp, 50) THEN "SELL"
    ELSE "NEUTRAL"

\* C26: a decided overall signal is on the side of the majority: BUY and
\* STRONG BUY have more buys than sells in total, SELL and STRONG SELL more
\* sells than buys; the BUY rule and the STRONG SELL rule never both match,
\* and trying them in the other order gives the same signal
C26_VerdictWithMajority ==
    (pc = "report" \/ Scored) =>
        /\ overall \in {"BUY", "STRONG BUY"} => total_buy > total_sell
        /\ overall \in {"SELL", "STRONG SELL"} => total_sell > total_buy
        /\ ~(PctAbove(buy_pct, 50)
               /\ PctAbove(sell_pct, 60) /\ osc_sell > osc_buy
               /\ ma_sell > ma_buy /\ pivot_sell >= pivot_buy)
        /\ overall = StrongSellBeforeBuy(buy_pct, sell_pct, osc_buy, osc_sell,
                                         ma_buy, ma_sell, pivot_buy, pivot_sell)

\* a SELL decided with buys and neutrals among the signals
C26_Witness ==
    /\ Scored
    /\ overall = "SELL"
    /\ total_buy > 0
    /\ total_neutral > 0
    /\ total_sell > total_buy

\* both have computed the levels of one of the four formulas
BothComputed ==
    /\ piv # NoPivots
    /\ piv.summary # None
    /\ piv.tool # None
    /\ piv.tool # Some(UnknownPivotType)

\* C27 as stated: for the same prior bar and current price a formula of the
\* TA summary has the same R1, the same S1 and the same zone as
\* get_pivot_points with that pivot type
C27_SameLevelsAndZone ==
    BothComputed =>
        /\ Val(piv.summary).r1 = Val(piv.tool).r1
        /\ Val(piv.summary).s1 = Val(piv.tool).s1
        /\ Val(piv.summary).zone = Val(piv.tool).zone

\* C27: for a prior bar with high >= max(open, close) >= min(open, close)
\* >= low > 0 and a current price above 0 the formula of the TA summary has
\* the same R1 and the same zone as get_pivot_points with that pivot type,
\* and the same S1 whenever S1 is not negative
C27_SameZone ==
    BothComputed =>
        /\ Val(piv.summary).r1 = Val(piv.tool).r1
        /\ Val(piv.summary).zone = Val(piv.tool).zone
        /\ (Val(piv.tool).s1 >= 0 \/ Val(piv.summary).s1 >= 0)
              => Val(piv.summary).s1 = Val(piv.tool).s1

\* a price below S1 for both, S1 being the same rounded quotient
C27_Witness ==
    /\ BothComputed
    /\ piv.pivot_type = "traditional"
    /\ Val(piv.tool).s1 % FUnit # 0
    /\ Val(piv.summary).zone = "below S1"
    /\ Val(piv.tool).zone = "below S1"

Crosses == {"crosses_above", "crosses_below"}

\* C28: over the calls of set_price_alert, check_alerts and list_alerts of
\* one caller, no step takes the triggered flag of an alert from true to
\* false, no alert has been in the triggered list of more than one
\* check_alerts call, and a check of a crosses_above or crosses_below alert
\* that has no previous checked price stored neither triggers nor reports it
C28_TriggeredOnce ==
    [][\A i \in AlertIds :
          /\ reports'[i] <= 1
          /\ store[i] # None =>
                /\ store'[i] # None
                /\ Val(store[i]).triggered => Val(store'[i]).triggered
                /\ (Val(store[i]).condition \in Crosses
                      /\ Val(store[i]).last_check_price = None) =>
                        /\ ~Val(store'[i]).triggered
                        /\ reports'[i] = reports[i]]_vars

\* a crosses_above alert that three checks have looked at: it triggered on
\* one of them and was in one triggered list
C28_Witness ==
    /\ procs # << >>
    /\ checks = MaxChecks
    /\ procs[1].op = "idle"
    /\ \E i \in AlertIds :
          /\ store[i] # None
          /\ Val(store[i]).condition = "crosses_above"
          /\ Val(store[i]).triggered
          /\ reports[i] = 1

\* every call has returned
AllReturned == procs # << >> /\ \A p \in DOMAIN procs : procs[p].op = "idle"

\* C30: when set_price_alert, remove_alert and check_alerts run at once on
\* the same alerts file, then once every call has returned, every alert
\* whose set_price_alert returned and that no remove_alert removed is in
\* the file
C30_NoUpdateLost ==
    AllReturned => \A i \in created \ removed : store[i] # None

\* the outcome of the latest call of func
LastOutcome == retry.log[Len(retry.log)]

\* C29: retry_on_error has called func at most max_retries times; every
\* call but the latest raised a network or exchange-not-available error;
\* a result of func is returned at once; such an error raised by the call
\* number max_retries is raised again, and any other exchange error is
\* raised again at once, whichever call raised it
C29_RetryOnError ==
    (retry # NoRetry) =>
        /\ Len(retry.log) <= retry.max_retries
        /\ \A i \in 1 .. Len(retry.log) - 1 :
              retry.log[i] \in {"NetworkError", "ExchangeNotAvailable"}
        /\ Len(retry.log) > 0 =>
              /\ LastOutcome = "result" =>
                    retry.pc = "returned" /\ retry.returned = Some("result")
              /\ LastOutcome = "ExchangeError" =>
                    retry.pc = "raised" /\ retry.raised = Some("ExchangeError")
              /\ (LastOutcome \in {"NetworkError", "ExchangeNotAvailable"}
                    /\ Len(retry.log) = retry.max_retries) =>
                    retry.pc = "raised" /\ retry.raised = Some(LastOutcome)
              /\ (LastOutcome \in {"NetworkError", "ExchangeNotAvailable"}
                    /\ Len(retry.log) < retry.max_retries) =>
                    retry.pc \in {"sleep", "for"}
        /\ retry.pc = "returned" =>
              \/ retry.returned = Some("result") /\ LastOutcome = "result"
              \/ retry.returned = Some("None") /\ retry.max_retries = 0
        /\ retry.pc = "raised" => retry.raised = Some(LastOutcome)

\* three attempts, each with a network error: the third is raised again
C29_Witness ==
    /\ retry # NoRetry
    /\ retry.max_retries = 3
    /\ retry.log = << "NetworkError", "NetworkError", "NetworkError" >>
    /\ retry.pc = "raised"
    /\ retry.raised = Some("NetworkError")

\* a result on the second attempt, after one retry
C29_ResultAfterRetry ==
    /\ retry # NoRetry
    /\ retry.log = << "ExchangeNotAvailable", "result" >>
    /\ retry.pc = "returned"
    /\ retry.slept = retry.delay

====
